---- MODULE Spec2Model ----
(***************************************************************************)
(* Model of the pump.fun chat relay:                                       *)
(*   - ServerPumpChatClient (src/ServerPumpChatClient.ts): one upstream    *)
(*     Socket.IO session with manual reconnection;                         *)
(*   - the SSE relay route (src/app/api/chat-debug/route.ts): the          *)
(*     process-wide activeConnections map and one stream per GET.          *)
(*   - the lottery persistence (src/lib/server-chat-debug.ts): the tables  *)
(*     of the SQLite file and the async calls that read and write them;    *)
(*   - the browser-side PumpFunChatDebugger (src/lib/chat-debug.ts).       *)
(*                                                                         *)
(* A client object is a record; every method and every socket or timer     *)
(* callback of the class is an operator from the record before the call    *)
(* to the record after it, so that a handler calling another method is     *)
(* the composition of the two operators.  Node runs every callback to      *)
(* completion on one event loop, hence one action per callback.            *)
(*                                                                         *)
(* Transport (socket.io-client v4, reconnection: false): a socket made by  *)
(* io() is "connecting"; it then fires 'connect' once ("connected") or     *)
(* 'connect_error' once ("failed"); a connected socket fires 'disconnect'  *)
(* once ("dropped" when the reason is remote, "closed" when local).        *)
(* socket.disconnect() on a connecting socket closes it silently; on a     *)
(* connected socket it fires the 'disconnect' listeners synchronously      *)
(* with reason 'io client disconnect'; on a finished socket it is a no-op. *)
(* io() is called with constant, valid arguments and does not throw, so    *)
(* the catch branch of connect() is not taken.  The EventEmitter has an    *)
(* 'error' listener (the relay registers one), so emit('error') returns.   *)
(***************************************************************************)
EXTENDS Integers, Sequences, FiniteSets, TLC

VARIABLES clients, activeConnections, streams, now,
          db, calls, chatDebugger

vars == <<clients, activeConnections, streams, now, db, calls, chatDebugger>>

\* the database and the browser-side debugger, which the client and the
\* relay never touch
aux == <<db, calls, chatDebugger>>

\* ---------------------------------------------------------------- bounds
MaxSockets == 2          \* io() calls per client
MaxAttemptsCfg == 2      \* largest maxReconnectAttempts option drawn
MaxClients == 2          \* relay: GET requests served
MaxRelaySockets == 3     \* relay: io() calls of all its clients
MaxTime == 1             \* relay: Date.now() ranges over 0..MaxTime
MaxDelayK == 6           \* attempts for which the delay table is checked
MaxCapacity == 2         \* largest messageHistoryLimit option drawn
MaxSaves == 2            \* saveLotteryPlay calls
MaxDraws == 1            \* conductLotteryDraw calls
MaxRows == 2             \* rows of a plays table before a draw
MaxDebuggerSockets == 3  \* debugger: io() calls
MaxPendingTimers == 1    \* debugger: pending timers of one strategy
MaxInserts == 3          \* newMessage events delivered to a client
MaxHistoryLen == 3       \* longest messageHistory payload
MaxHistoryRequests == 1  \* joinRoomResponse events delivered to a client
MaxLimit == 3            \* largest limit passed to getMessages
MaxCloseAttempts == 3    \* safeClose() calls made or pending per stream

Rooms == {"roomX"}
Users == {"alice"}
Msgs == {"m1", "m2"}

RECURSIVE SeqsUpTo(_, _)
SeqsUpTo(S, n) ==
  IF n = 0 THEN {<<>>}
  ELSE LET shorter == SeqsUpTo(S, n - 1)
       IN shorter \cup {Append(q, x) : q \in shorter, x \in S}

LocalReason == "io client disconnect"
RemoteReasons == {"transport close", "io server disconnect"}

\* ------------------------------------------------------- pure helpers
RECURSIVE Pow2(_)
Pow2(n) == IF n <= 0 THEN 1 ELSE 2 * Pow2(n - 1)

Min(a, b) == IF a < b THEN a ELSE b

Max(a, b) == IF a > b THEN a ELSE b

\* Array.prototype.slice(start) with one argument; the caller passes
\* -messageHistoryLimit, and -0 is 0
slice(arr, start) ==
  LET len == Len(arr)
      k == IF start < 0 THEN Max(len + start, 0) ELSE Min(start, len)
  IN SubSeq(arr, k + 1, len)

\* delay for the k-th reconnect attempt (k is the counter after ++)
ReconnectDelay_NoMinusOne(k) == Min(1000 * Pow2(k), 16000)
ReconnectDelay(k) == Min(1000 * Pow2(k - 1), 16000)

\* ------------------------------------------------- ServerPumpChatClient
DefaultMessageHistoryLimit == 100

NewClient(room, user, maxAttempts) ==
  [ roomId |-> room, username |-> user,
    maxReconnectAttempts |-> maxAttempts,
    socket |-> 0,               \* index into socks, 0 = null
    socks |-> <<>>,             \* every transport io() has returned, with
                                \* byTimer: opened by the reconnect timer,
                                \* afterStop: opened after a disconnect()
    isConnected |-> FALSE,
    reconnectAttempts |-> 0,
    reconnectTimeout |-> 0,     \* index into delays, 0 = null
    isReconnecting |-> FALSE,
    shouldReconnect |-> TRUE,
    delays |-> <<>>,            \* delay of every reconnect timer armed
    timers |-> {},              \* reconnect timers still pending
    watchdogs |-> {},           \* pending 20000 ms timeouts (by socket made)
    settleTimers |-> 0,         \* pending 500 ms joinRoom timeouts
    fallbackTimers |-> 0,       \* pending 1000 ms alternative-join timeouts
    messageHistory |-> <<>>,
    messageHistoryLimit |-> DefaultMessageHistoryLimit,
    historyTimers |-> 0,        \* pending 1000 ms alternative-history timeouts
    emitted |-> <<>>,           \* events emitted by the running callback
    args |-> <<>>,              \* <<event, argument>> of those carrying one
    sent |-> <<>>,              \* socket.emit calls of the running callback
    sentArgs |-> <<>>,          \* <<event, argument>> of those calls
    returned |-> <<>>,          \* <<value>> returned by the running call
    joinSent |-> FALSE,         \* 'joinRoom' was sent on the current socket
                                \* and a fallback timer it armed is pending
    event |-> "",               \* socket event the running callback handles
    input |-> <<>>,             \* and its argument
    inserted |-> <<>>,          \* every 'newMessage' argument so far
    replaced |-> FALSE,         \* a 'messageHistory' event has been handled
    nMaxReached |-> 0,          \* 'maxReconnectsReached' events so far
    exhausted |-> FALSE,        \* maxReconnectsReached since last connect()
    stopped |-> FALSE ]         \* disconnect() has been called

Live(st) == st \in {"connecting", "connected"}

Begin(s) ==
  [s EXCEPT !.emitted = <<>>, !.args = <<>>, !.sent = <<>>,
            !.sentArgs = <<>>, !.returned = <<>>,
            !.event = "", !.input = <<>>]

emit(s, ev) ==
  [s EXCEPT !.emitted = Append(@, ev),
            !.nMaxReached = IF ev = "maxReconnectsReached" THEN @ + 1 ELSE @,
            !.exhausted = IF ev = "maxReconnectsReached" THEN TRUE ELSE @]

\* this.emit(ev, arg) where the argument matters
emitWith(s, ev, arg) == [emit(s, ev) EXCEPT !.args = Append(@, <<ev, arg>>)]

socketEmit(s, ev) == [s EXCEPT !.sent = Append(@, <<s.socket, ev>>)]

\* this.socket.emit(ev, arg)
socketEmitWith(s, ev, arg) ==
  [socketEmit(s, ev) EXCEPT
     !.sentArgs = Append(@, <<ev, arg>>),
     !.joinSent = IF ev = "joinRoom" THEN TRUE ELSE @]

clearReconnectTimeout(s) ==
  IF s.reconnectTimeout # 0
  THEN [s EXCEPT !.timers = @ \ {s.reconnectTimeout}, !.reconnectTimeout = 0]
  ELSE s

scheduleReconnection_Fallthrough(s) ==
  IF s.isReconnecting \/ ~s.shouldReconnect THEN s
  ELSE LET s1 == IF s.reconnectAttempts >= s.maxReconnectAttempts
                 THEN emit(s, "maxReconnectsReached") ELSE s
           k == s.reconnectAttempts + 1
           t == Len(s.delays) + 1
       IN [s1 EXCEPT !.isReconnecting = TRUE,
                     !.reconnectAttempts = k,
                     !.delays = Append(@, ReconnectDelay(k)),
                     !.timers = @ \cup {t},
                     !.reconnectTimeout = t]

scheduleReconnection_OffByOne(s) ==
  IF s.isReconnecting \/ ~s.shouldReconnect THEN s
  ELSE IF s.reconnectAttempts > s.maxReconnectAttempts
  THEN emit(s, "maxReconnectsReached")
  ELSE LET k == s.reconnectAttempts + 1
           t == Len(s.delays) + 1
       IN [s EXCEPT !.isReconnecting = TRUE,
                    !.reconnectAttempts = k,
                    !.delays = Append(@, ReconnectDelay(k)),
                    !.timers = @ \cup {t},
                    !.reconnectTimeout = t]

scheduleReconnection(s) ==
  IF s.isReconnecting \/ ~s.shouldReconnect THEN s
  ELSE IF s.reconnectAttempts >= s.maxReconnectAttempts
  THEN emit(s, "maxReconnectsReached")
  ELSE LET k == s.reconnectAttempts + 1
           t == Len(s.delays) + 1
       IN [s EXCEPT !.isReconnecting = TRUE,
                    !.reconnectAttempts = k,
                    !.delays = Append(@, ReconnectDelay(k)),
                    !.timers = @ \cup {t},
                    !.reconnectTimeout = t]

\* this.socket.on('disconnect', reason => ...)
onDisconnect_AnyReason(s, reason) ==
  LET s1 == emit([s EXCEPT !.isConnected = FALSE], "disconnected")
  IN IF s.shouldReconnect THEN scheduleReconnection(s1) ELSE s1

onDisconnect(s, reason) ==
  LET s1 == emit([s EXCEPT !.isConnected = FALSE], "disconnected")
  IN IF s.shouldReconnect /\ reason # LocalReason
     THEN scheduleReconnection(s1) ELSE s1

\* socket.io's Socket.disconnect() applied to transport k
socketDisconnect(s, k) ==
  IF s.socks[k].status = "connected"
  THEN onDisconnect([s EXCEPT !.socks[k].status = "closed"], LocalReason)
  ELSE IF s.socks[k].status = "connecting"
  THEN [s EXCEPT !.socks[k].status = "closed"]
  ELSE s

\* this.socket.on('connect', ...)
onConnect_KeepCounter(s) ==
  LET s1 == [s EXCEPT !.isConnected = TRUE, !.isReconnecting = FALSE]
  IN [emit(s1, "connected") EXCEPT !.settleTimers = @ + 1]

onConnect(s) ==
  LET s1 == [s EXCEPT !.isConnected = TRUE,
                      !.reconnectAttempts = 0,
                      !.isReconnecting = FALSE]
  IN [emit(s1, "connected") EXCEPT !.settleTimers = @ + 1]

\* this.socket.on('connect_error', ...)
onConnectError(s) ==
  LET s1 == emit(s, "error")
  IN IF s.shouldReconnect THEN scheduleReconnection(s1) ELSE s1

\* this.socket.on('error', ...)
onError(s) == emit(s, "error")

\* the 20000 ms setTimeout of setupSocketEventHandlers
connectionTimeout(s) ==
  IF ~s.isConnected /\ s.socket # 0
  THEN scheduleReconnection(socketDisconnect(s, s.socket))
  ELSE s

joinRoomFallback(s) ==
  LET s1 == IF s.socket # 0 /\ s.isConnected
            THEN socketEmitWith(socketEmitWith(s, "join", s.roomId),
                                "subscribe", [room |-> s.roomId])
            ELSE s
  IN [s1 EXCEPT !.joinSent = IF s.fallbackTimers = 0 THEN FALSE ELSE @]

joinRoom(s) ==
  IF s.socket # 0 /\ s.isConnected
  THEN [socketEmitWith(s, "joinRoom",
                       [roomId |-> s.roomId, username |-> s.username])
          EXCEPT !.fallbackTimers = @ + 1]
  ELSE s

historyFallback_NoGuard(s) ==
  socketEmitWith(
    socketEmitWith(
      socketEmitWith(s, "messageHistory", [roomId |-> s.roomId]),
      "getHistory", [room |-> s.roomId, limit |-> s.messageHistoryLimit]),
    "fetchMessages", [roomId |-> s.roomId])

\* the 1000 ms setTimeout callback of requestMessageHistory
historyFallback(s) ==
  IF s.socket # 0 /\ s.isConnected
  THEN socketEmitWith(
         socketEmitWith(
           socketEmitWith(s, "messageHistory", [roomId |-> s.roomId]),
           "getHistory", [room |-> s.roomId, limit |-> s.messageHistoryLimit]),
         "fetchMessages", [roomId |-> s.roomId])
  ELSE s

requestMessageHistory(s) ==
  IF s.socket # 0 /\ s.isConnected
  THEN [socketEmitWith(s, "getMessageHistory",
                       [roomId |-> s.roomId, before |-> "null",
                        limit |-> s.messageHistoryLimit])
          EXCEPT !.historyTimers = @ + 1]
  ELSE s

handleNewMessage_NoEvict(s, message) ==
  emitWith([s EXCEPT !.messageHistory = Append(@, message)], "message", message)

\* pop() in place of shift()
handleNewMessage_EvictNewest(s, message) ==
  LET pushed == Append(s.messageHistory, message)
      kept == IF Len(pushed) > s.messageHistoryLimit
              THEN SubSeq(pushed, 1, Len(pushed) - 1) ELSE pushed
  IN emitWith([s EXCEPT !.messageHistory = kept], "message", message)

handleNewMessage(s, message) ==
  LET pushed == Append(s.messageHistory, message)
      kept == IF Len(pushed) > s.messageHistoryLimit
              THEN Tail(pushed) ELSE pushed
  IN emitWith([s EXCEPT !.messageHistory = kept], "message", message)

\* slice(0, limit) in place of slice(-limit)
handleMessageHistory_KeepFirst(s, messages) ==
  LET kept == SubSeq(messages, 1, Min(Len(messages), s.messageHistoryLimit))
  IN emitWith([s EXCEPT !.messageHistory = kept], "messageHistory", kept)

\* the emitted argument is the array the buffer now is
handleMessageHistory(s, messages) ==
  LET kept == slice(messages, -s.messageHistoryLimit)
  IN emitWith([s EXCEPT !.messageHistory = kept], "messageHistory", kept)

\* this.socket.on('newMessage', ...)
onNewMessage(s, message) == handleNewMessage(s, message)

\* this.socket.on('messageHistory', ...): data.messages || []
onMessageHistory(s, data) ==
  handleMessageHistory(s, IF data.hasMessages THEN data.messages ELSE <<>>)

FailedToJoinRoom == "Failed to join room"

onJoinRoomResponse_RequestAnyway(s, response) ==
  LET s1 == requestMessageHistory(s)
  IN IF response.success THEN s1
     ELSE emitWith(s1, "serverError",
                   IF response.hasMessage /\ response.message # ""
                   THEN response.message ELSE FailedToJoinRoom)

\* this.socket.on('joinRoomResponse', ...): response.message is optional and
\* response.message || 'Failed to join room' also replaces the empty string
onJoinRoomResponse(s, response) ==
  IF response.success THEN requestMessageHistory(s)
  ELSE emitWith(s, "serverError",
                IF response.hasMessage /\ response.message # ""
                THEN response.message ELSE FailedToJoinRoom)

\* this.socket.on('userJoined', ...)
onUserJoined(s, data) == emitWith(s, "userJoined", data)

\* this.socket.on('userLeft', ...)
onUserLeft_Duplicate(s, data) ==
  emitWith(emitWith(s, "userLeft", data.userAddress),
           "userLeft", data.userAddress)

onUserLeft(s, data) == emitWith(s, "userLeft", data.userAddress)

onServerError_Reconnect(s, error) ==
  scheduleReconnection(emitWith(s, "serverError", error))

\* this.socket.on('serverError', ...)
onServerError(s, error) == emitWith(s, "serverError", error)

sendMessage_NoGuard(s, message) ==
  socketEmitWith(s, "sendMessage", [roomId |-> s.roomId, message |-> message])

sendMessage(s, message) ==
  IF s.socket # 0 /\ s.isConnected
  THEN socketEmitWith(s, "sendMessage",
                      [roomId |-> s.roomId, message |-> message])
  ELSE s

\* getMessages(limit?): arguments is the call's argument list, <<>> or
\* <<limit>>; `if (limit)` is false for a missing limit and for 0
getMessages(s, arguments) ==
  IF Len(arguments) = 1 /\ arguments[1] # 0
  THEN slice(s.messageHistory, -arguments[1])
  ELSE s.messageHistory

isActive_FlagOnly(s) == s.isConnected

\* this.isConnected && this.socket?.connected === true
isActive(s) ==
  /\ s.isConnected
  /\ s.socket # 0
  /\ s.socks[s.socket].status = "connected"

getConnectionInfo(s) ==
  [ isConnected |-> s.isConnected,
    socketConnected |-> s.socket # 0 /\ s.socks[s.socket].status = "connected",
    roomId |-> s.roomId,
    username |-> s.username,
    messageCount |-> Len(s.messageHistory),
    reconnectAttempts |-> s.reconnectAttempts,
    isReconnecting |-> s.isReconnecting,
    shouldReconnect |-> s.shouldReconnect ]

connect(s) ==
  LET s1 == clearReconnectTimeout(s)
      k == Len(s.socks) + 1
  IN [s1 EXCEPT !.socks = Append(@, [status |-> "connecting",
                                     byTimer |-> FALSE,
                                     afterStop |-> s.stopped]),
                !.socket = k,
                !.joinSent = FALSE,
                !.watchdogs = @ \cup {k}]

\* the callback of the reconnect setTimeout of scheduleReconnection
reconnectTimeoutFired(s) ==
  LET s1 == connect([s EXCEPT !.reconnectTimeout = 0])
  IN [s1 EXCEPT !.socks[s1.socket].byTimer = TRUE]

disconnect_KeepTransport(s) ==
  [clearReconnectTimeout([s EXCEPT !.shouldReconnect = FALSE,
                                   !.stopped = TRUE])
     EXCEPT !.isConnected = FALSE, !.isReconnecting = FALSE]

disconnect(s) ==
  LET s1 == clearReconnectTimeout([s EXCEPT !.shouldReconnect = FALSE,
                                            !.stopped = TRUE])
      s2 == IF s1.socket # 0
            THEN [socketDisconnect(s1, s1.socket) EXCEPT !.socket = 0]
            ELSE s1
  IN [s2 EXCEPT !.isConnected = FALSE, !.isReconnecting = FALSE]

\* ------------------------------------------------ relay (chat-debug route)
DefaultMaxReconnectAttempts == 5

\* keys of the activeConnections Map are strings; a key is modelled as the
\* tuple of the parts the template literal joins with '-'
RoomKey(room) == <<room>>
ConnectionId(room, user, time) == <<room, user, time>>

EmptyMap == [k \in {} |-> 0]
MapSet(m, key, v) == [k \in DOMAIN m \cup {key} |-> IF k = key THEN v ELSE m[k]]
MapDelete(m, key) == [k \in DOMAIN m \ {key} |-> m[k]]

NewStream(key) ==
  [ connectionId |-> key,
    state |-> "open",            \* the ReadableStream: open, closed, cancelled
    isControllerClosed |-> FALSE,
    closes |-> 0,                \* successful controller.close() calls
    closeCalls |-> 0,            \* controller.close() calls
    closeAttempts |-> 0,         \* safeClose() calls
    cleanupTimers |-> 0,         \* pending 1000 ms cleanup timeouts
    aborted |-> FALSE,           \* request.signal has fired
    out |-> <<>> ]               \* chunks enqueued by the running callback

BeginStream(st) == [st EXCEPT !.out = <<>>]

sendEvent(st, event, name) ==
  IF st.isControllerClosed THEN st
  ELSE IF st.state = "open"
  THEN [st EXCEPT !.out = Append(@, <<event, name>>)]
  ELSE [st EXCEPT !.isControllerClosed = TRUE]     \* enqueue threw

safeClose_NoGuard(st) ==
  [st EXCEPT !.isControllerClosed = TRUE,
             !.state = IF @ = "open" THEN "closed" ELSE @,
             !.closes = IF st.state = "open" THEN @ + 1 ELSE @,
             !.closeCalls = @ + 1,
             !.closeAttempts = @ + 1]

\* controller.close() throws on a stream that is not open; the throw is caught
safeClose(st) ==
  IF ~st.isControllerClosed
  THEN [st EXCEPT !.isControllerClosed = TRUE,
                  !.state = IF @ = "open" THEN "closed" ELSE @,
                  !.closes = IF st.state = "open" THEN @ + 1 ELSE @,
                  !.closeCalls = @ + 1,
                  !.closeAttempts = @ + 1]
  ELSE [st EXCEPT !.closeAttempts = @ + 1]

listener_EventFirst(st, ev) ==
  LET st1 == sendEvent(sendEvent(st, "event", ev), "log", ev)
  IN IF ev = "maxReconnectsReached"
     THEN [st1 EXCEPT !.cleanupTimers = @ + 1]
     ELSE st1

\* the listener the route registers for one client event
listener(st, ev) ==
  LET st1 == sendEvent(sendEvent(st, "log", ev), "event", ev)
  IN IF ev = "maxReconnectsReached"
     THEN [st1 EXCEPT !.cleanupTimers = @ + 1]
     ELSE st1

RECURSIVE forward(_, _)
forward(st, evs) ==
  IF evs = <<>> THEN st
  ELSE forward(listener(st, Head(evs)), Tail(evs))

\* one callback of client c ran and left it as s2; its events reach the
\* stream of the same GET, if there is one
ClientStep(c, s2) ==
  /\ clients' = [i \in DOMAIN clients |->
                   IF i = c THEN s2 ELSE Begin(clients[i])]
  /\ streams' = [i \in DOMAIN streams |->
                   IF i = c THEN forward(BeginStream(streams[i]), s2.emitted)
                   ELSE BeginStream(streams[i])]
  /\ UNCHANGED <<activeConnections, now>>
  /\ UNCHANGED aux

\* ------------------------------------------------------------- actions
\* io() calls made so far by the first n clients
RECURSIVE SocketsOf(_)
SocketsOf(n) ==
  IF n = 0 THEN 0 ELSE Len(clients[n].socks) + SocketsOf(n - 1)

\* io() calls allowed to client c
SocketCap(c) ==
  IF c \in DOMAIN streams
  THEN IF SocketsOf(Len(clients)) < MaxRelaySockets
       THEN Len(clients[c].socks) + 1
       ELSE Len(clients[c].socks)
  ELSE MaxSockets

\* public connect()
Connect(c) ==
  /\ Len(clients[c].socks) < MaxSockets
  /\ ClientStep(c, [connect(Begin(clients[c])) EXCEPT !.exhausted = FALSE])

\* public disconnect()
Disconnect(c) == ClientStep(c, disconnect(Begin(clients[c])))

\* transport k reports 'connect'
OnConnect(c, k) ==
  /\ clients[c].socks[k].status = "connecting"
  /\ ClientStep(c, onConnect([Begin(clients[c]) EXCEPT
                                !.socks[k].status = "connected"]))

\* transport k reports 'connect_error'
OnConnectError(c, k) ==
  /\ clients[c].socks[k].status = "connecting"
  /\ ClientStep(c, onConnectError([Begin(clients[c]) EXCEPT
                                     !.socks[k].status = "failed"]))

\* transport k reports 'disconnect' with a remote reason
OnDisconnect(c, k, reason) ==
  /\ clients[c].socks[k].status = "connected"
  /\ ClientStep(c, onDisconnect([Begin(clients[c]) EXCEPT
                                   !.socks[k].status = "dropped"], reason))

\* transport k reports 'error'
OnError(c, k) ==
  /\ Live(clients[c].socks[k].status)
  /\ ClientStep(c, onError(Begin(clients[c])))

ReconnectTimeoutFires(c, t) ==
  /\ t \in clients[c].timers
  /\ Len(clients[c].socks) < SocketCap(c)
  /\ ClientStep(c, reconnectTimeoutFired([Begin(clients[c]) EXCEPT
                                            !.timers = @ \ {t}]))

ConnectionTimeoutFires(c, k) ==
  /\ k \in clients[c].watchdogs
  /\ ClientStep(c, connectionTimeout([Begin(clients[c]) EXCEPT
                                        !.watchdogs = @ \ {k}]))

SettleDelayFires(c) ==
  /\ clients[c].settleTimers > 0
  /\ ClientStep(c, joinRoom([Begin(clients[c]) EXCEPT !.settleTimers = @ - 1]))

JoinFallbackFires(c) ==
  /\ clients[c].fallbackTimers > 0
  /\ ClientStep(c, joinRoomFallback([Begin(clients[c]) EXCEPT
                                       !.fallbackTimers = @ - 1]))

\* what a 'messageHistory' event may carry: { messages: [...] } or {}
Histories ==
  {[hasMessages |-> TRUE, messages |-> q] : q \in SeqsUpTo(Msgs, MaxHistoryLen)}
    \cup {[hasMessages |-> FALSE, messages |-> <<>>]}

\* what a 'joinRoomResponse' event may carry: { success, message? }
Responses ==
  {r \in [success : BOOLEAN, hasMessage : BOOLEAN, message : {"room full", ""}] :
     ~r.hasMessage => r.message = ""}

\* transport k delivers 'newMessage'
OnNewMessage(c, k, message) ==
  /\ clients[c].socks[k].status = "connected"
  /\ Len(clients[c].inserted) < MaxInserts
  /\ ClientStep(c, onNewMessage([Begin(clients[c]) EXCEPT
                                   !.event = "newMessage",
                                   !.input = message,
                                   !.inserted = Append(@, message)], message))

\* transport k delivers 'messageHistory'
OnMessageHistory(c, k, data) ==
  /\ clients[c].socks[k].status = "connected"
  /\ ClientStep(c, onMessageHistory([Begin(clients[c]) EXCEPT
                                       !.event = "messageHistory",
                                       !.input = data,
                                       !.replaced = TRUE], data))

\* transport k delivers 'joinRoomResponse'
OnJoinRoomResponse(c, k, response) ==
  /\ clients[c].socks[k].status = "connected"
  /\ clients[c].historyTimers < MaxHistoryRequests
  /\ ClientStep(c, onJoinRoomResponse([Begin(clients[c]) EXCEPT
                                         !.event = "joinRoomResponse",
                                         !.input = response], response))

\* what 'userJoined' and 'userLeft' events may carry
Addresses == {"addr1", "addr2"}
UserData == [username : Users, userAddress : Addresses]
LeftData == [userAddress : Addresses]
ServerErrors == {"room full", "rate limited"}

\* transport k delivers 'userJoined'
OnUserJoined(c, k, data) ==
  /\ clients[c].socks[k].status = "connected"
  /\ ClientStep(c, onUserJoined([Begin(clients[c]) EXCEPT
                                   !.event = "userJoined",
                                   !.input = data], data))

\* transport k delivers 'userLeft'
OnUserLeft(c, k, data) ==
  /\ clients[c].socks[k].status = "connected"
  /\ ClientStep(c, onUserLeft([Begin(clients[c]) EXCEPT
                                 !.event = "userLeft",
                                 !.input = data], data))

\* transport k delivers 'serverError'
OnServerError(c, k, error) ==
  /\ clients[c].socks[k].status = "connected"
  /\ ClientStep(c, onServerError([Begin(clients[c]) EXCEPT
                                    !.event = "serverError",
                                    !.input = error], error))

Texts == {"hi", ""}

\* public sendMessage(text)
SendMessage(c, text) ==
  ClientStep(c, sendMessage([Begin(clients[c]) EXCEPT
                               !.event = "sendMessage",
                               !.input = text], text))

Limits == {<<>>} \cup {<<n>> : n \in 0..MaxLimit}

\* public getMessages(limit?)
GetMessages(c, arguments) ==
  ClientStep(c, [Begin(clients[c]) EXCEPT
                   !.event = "getMessages",
                   !.input = arguments,
                   !.returned = <<getMessages(Begin(clients[c]), arguments)>>])

\* public isActive()
IsActive(c) ==
  ClientStep(c, [Begin(clients[c]) EXCEPT
                   !.event = "isActive",
                   !.returned = <<isActive(Begin(clients[c]))>>])

HistoryFallbackFires(c) ==
  /\ clients[c].historyTimers > 0
  /\ ClientStep(c, historyFallback([Begin(clients[c]) EXCEPT
                                      !.historyTimers = @ - 1]))

\* GET: ReadableStream start(controller); time is what Date.now() returns,
\* which never runs backwards and is read nowhere else
GET(room, user, time) ==
  /\ Len(clients) < MaxClients
  /\ now' = time
  /\ UNCHANGED aux
  /\ LET connectionId == ConnectionId(room, user, time)
         key == RoomKey(room)
         found == key \in DOMAIN activeConnections
         c == Len(clients) + 1
         old == IF found THEN activeConnections[key] ELSE 0
         map1 == IF found THEN MapDelete(activeConnections, key)
                 ELSE activeConnections
         client == connect(NewClient(room, user, DefaultMaxReconnectAttempts))
         st0 == sendEvent(sendEvent(sendEvent(sendEvent(NewStream(connectionId),
                  "log", "start"), "log", "room"), "log", "user"), "log", "attempt")
     IN /\ clients' = [i \in 1..c |->
                         IF i = c THEN client
                         ELSE IF i = old THEN disconnect(Begin(clients[i]))
                         ELSE Begin(clients[i])]
        /\ streams' = [i \in 1..c |->
                         IF i = c THEN st0
                         ELSE forward(BeginStream(streams[i]), clients'[i].emitted)]
        /\ activeConnections' = MapSet(map1, connectionId, c)

\* request.signal 'abort' listener of stream i
Abort(i) ==
  /\ ~streams[i].aborted
  /\ clients' = [j \in DOMAIN clients |->
                   IF j = i THEN disconnect(Begin(clients[j]))
                   ELSE Begin(clients[j])]
  /\ activeConnections' = MapDelete(activeConnections, streams[i].connectionId)
  /\ streams' = [j \in DOMAIN streams |->
                   IF j = i
                   THEN safeClose(forward([BeginStream(streams[j]) EXCEPT
                                             !.aborted = TRUE],
                                          clients'[j].emitted))
                   ELSE BeginStream(streams[j])]
  /\ UNCHANGED now
  /\ UNCHANGED aux

\* ReadableStream cancel() of stream i
Cancel(i) ==
  /\ streams[i].state = "open"
  /\ LET registered == {activeConnections[k] : k \in DOMAIN activeConnections}
     IN /\ clients' = [j \in DOMAIN clients |->
                         IF j \in registered THEN disconnect(Begin(clients[j]))
                         ELSE Begin(clients[j])]
        /\ streams' = [j \in DOMAIN streams |->
                         forward([BeginStream(streams[j]) EXCEPT
                                    !.state = IF j = i THEN "cancelled" ELSE @],
                                 clients'[j].emitted)]
  /\ activeConnections' = EmptyMap
  /\ UNCHANGED now
  /\ UNCHANGED aux

\* the 1000 ms cleanup timeout armed by the maxReconnectsReached listener
\* (no disjunct of RelayNext: with the default of 5 attempts the route's
\* clients never emit maxReconnectsReached, see AttemptsAtMostOne)
CleanupFires_KeepEntry(i) ==
  /\ streams[i].cleanupTimers > 0
  /\ streams' = [j \in DOMAIN streams |->
                   IF j = i
                   THEN safeClose([BeginStream(streams[j]) EXCEPT
                                     !.cleanupTimers = @ - 1])
                   ELSE BeginStream(streams[j])]
  /\ clients' = [j \in DOMAIN clients |-> Begin(clients[j])]
  /\ UNCHANGED <<activeConnections, now>>
  /\ UNCHANGED aux

CleanupFires(i) ==
  /\ streams[i].cleanupTimers > 0
  /\ activeConnections' = MapDelete(activeConnections, streams[i].connectionId)
  /\ streams' = [j \in DOMAIN streams |->
                   IF j = i
                   THEN safeClose([BeginStream(streams[j]) EXCEPT
                                     !.cleanupTimers = @ - 1])
                   ELSE BeginStream(streams[j])]
  /\ clients' = [j \in DOMAIN clients |-> Begin(clients[j])]
  /\ UNCHANGED now
  /\ UNCHANGED aux

\* ---------------------------------------------------- lottery persistence
\* (src/lib/server-chat-debug.ts)  Every exported function opens its own
\* connection with initDatabase() and runs its statements one at a time in
\* autocommit mode: a statement is atomic, a function that runs two
\* statements is two steps, and other calls may run between them.
\* initDatabase() only issues CREATE TABLE IF NOT EXISTS and changes no row.
NULL == "NULL"

Tables == {"lottery_plays", "lottery_plays_home"}
Usernames == {"alice", "bob"}
Wallets == {"", "W1"}
NumberChoices == {<<7, 3, 49, 1>>, <<4, 4, 2, 9>>}

\* the plays a caller may save
Plays == [username : Usernames, walletAddress : Wallets,
          numbers : NumberChoices]

\* JSON.stringify of an array of numbers, as a sequence of tokens
JSONstringify(numbers) ==
  <<"[">> \o [n \in 1..(2 * Len(numbers) - 1) |->
                IF n % 2 = 1 THEN ToString(numbers[(n + 1) \div 2])
                ELSE ","] \o <<"]">>

\* JSON.parse of such a text: the numbers between the separators
JSONparse(text) ==
  [n \in 1..((Len(text) - 1) \div 2) |->
     CHOOSE v \in 0..49 : ToString(v) = text[2 * n]]

\* x || null
OrNull(x) == IF x = "" THEN NULL ELSE x

\* the database file before any row is written; sqlite_sequence holds the
\* last AUTOINCREMENT id of each table
EmptyDb ==
  [lottery_plays |-> <<>>, lottery_plays_home |-> <<>>,
   lottery_results |-> <<>>, lottery_winners |-> <<>>,
   whitelist |-> {},
   sqlite_sequence |-> [t \in Tables \cup {"lottery_results",
                                            "lottery_winners"} |-> 0]]

\* INSERT INTO table: the row gets the next id of the table
Insert(d, table, row) ==
  LET id == d.sqlite_sequence[table] + 1
  IN [d EXCEPT ![table] = Append(@, [row EXCEPT !.id = id]),
               !.sqlite_sequence[table] = id]

\* DELETE FROM table WHERE username = ? OR
\*   (wallet_address IS NOT NULL AND wallet_address = ?)
DeleteByAuthor(d, table, username, wallet) ==
  [d EXCEPT ![table] =
     SelectSeq(@, LAMBDA r :
       ~(\/ r.username = username
         \/ (r.wallet_address # NULL /\ wallet # NULL
              /\ r.wallet_address = wallet)))]

\* the row saveLotteryPlay / saveLotteryPlayHome inserts for a play
PlayRow(play) ==
  [id |-> 0, username |-> play.username,
   numbers |-> JSONstringify(play.numbers),
   wallet_address |-> OrNull(play.walletAddress)]

\* a call of an async function of the module that has not yet run its first
\* statement; pc names the statement it runs next, the other fields are
\* its arguments, its local variables and the value it resolves with
NewCall(fn, table, play) ==
  [fn |-> fn, table |-> table, play |-> play, pc |-> "first",
   plays |-> <<>>, homePlays |-> <<>>, winningNumbers |-> <<>>,
   winners |-> <<>>, resultData |-> <<>>, ret |-> 0]

\* saveLotteryPlay(play) / saveLotteryPlayHome(play) is called
SaveLotteryPlay(table, play) ==
  /\ Cardinality({n \in DOMAIN calls : calls[n].fn = "saveLotteryPlay"})
       < MaxSaves
  /\ calls' = Append(calls, [NewCall("saveLotteryPlay", table, play)
                               EXCEPT !.pc = "delete"])
  /\ UNCHANGED <<db, chatDebugger>>
  /\ UNCHANGED <<clients, activeConnections, streams, now>>

\* deleteStmt.run: the rows of the author are removed
DeleteRuns(n) ==
  /\ calls[n].fn = "saveLotteryPlay"
  /\ calls[n].pc = "delete"
  /\ db' = DeleteByAuthor(db, calls[n].table, calls[n].play.username,
                          OrNull(calls[n].play.walletAddress))
  /\ calls' = [calls EXCEPT ![n].pc = "insert"]
  /\ UNCHANGED chatDebugger
  /\ UNCHANGED <<clients, activeConnections, streams, now>>

\* insertStmt.run, in the callback of the delete: the play is inserted and
\* the call resolves with this.lastID
InsertRuns(n) ==
  /\ calls[n].fn = "saveLotteryPlay"
  /\ calls[n].pc = "insert"
  /\ db' = Insert(db, calls[n].table, PlayRow(calls[n].play))
  /\ calls' = [calls EXCEPT ![n].pc = "done",
                            ![n].ret = db'.sqlite_sequence[calls[n].table]]
  /\ UNCHANGED chatDebugger
  /\ UNCHANGED <<clients, activeConnections, streams, now>>

\* deleteLotteryPlayHome(id): one DELETE statement
DeleteLotteryPlayHome(id) ==
  /\ db' = [db EXCEPT !.lottery_plays_home =
                        SelectSeq(@, LAMBDA r : r.id # id)]
  /\ db' # db
  /\ UNCHANGED <<calls, chatDebugger>>
  /\ UNCHANGED <<clients, activeConnections, streams, now>>

\* Array.prototype.sort((a, b) => a - b)
RECURSIVE SortAsc(_)
SortAsc(numbers) ==
  IF numbers = <<>> THEN <<>>
  ELSE LET rest == SortAsc(Tail(numbers))
           x == Head(numbers)
           below == SelectSeq(rest, LAMBDA y : y < x)
           above == SelectSeq(rest, LAMBDA y : y >= x)
       IN below \o <<x>> \o above

\* a row of a plays table as a LotteryPlay object
RowToPlay(row) ==
  [id |-> row.id, username |-> row.username,
   numbers |-> JSONparse(row.numbers),
   walletAddress |-> IF row.wallet_address = NULL THEN "" ELSE row.wallet_address]

\* calculateJackpot: the total behind the currency sign
calculateJackpot(playerCount) ==
  [currency |-> "$", total |-> 100000 + playerCount * 1000]

\* what Array.from({ length: 4 }, random 1..49) may return
RandomNumbers == {<<1, 1, 1, 1>>, <<30, 2, 49, 17>>}

\* conductLotteryDraw(sourceTable) is called
ConductLotteryDraw(sourceTable) ==
  /\ Cardinality({n \in DOMAIN calls : calls[n].fn = "conductLotteryDraw"})
       < MaxDraws
  /\ calls' = Append(calls, [NewCall("conductLotteryDraw", sourceTable, <<>>)
                               EXCEPT !.pc = "readSource"])
  /\ UNCHANGED <<db, chatDebugger>>
  /\ UNCHANGED <<clients, activeConnections, streams, now>>

\* db.all(getPlaysQuery): the rows of the source table become plays; the
\* ORDER BY only fixes an order in which nothing but the length is used
ReadSource(n) ==
  /\ calls[n].fn = "conductLotteryDraw"
  /\ calls[n].pc = "readSource"
  /\ calls' = [calls EXCEPT
       ![n].plays = [k \in DOMAIN db[calls[n].table] |->
                       RowToPlay(db[calls[n].table][k])],
       ![n].pc = "readHome"]
  /\ UNCHANGED <<db, chatDebugger>>
  /\ UNCHANGED <<clients, activeConnections, streams, now>>

selectWinner_FromSource(call, homePlays, randomIndex, randomNumbers) ==
  LET winners == IF call.plays # <<>>
                 THEN LET w == call.plays[((randomIndex - 1) % Len(call.plays)) + 1]
                      IN <<[id |-> 0, username |-> w.username, numbers |-> w.numbers,
                            walletAddress |-> w.walletAddress]>>
                 ELSE <<>>
      winningNumbers == IF winners # <<>> THEN SortAsc(winners[1].numbers)
                        ELSE SortAsc(randomNumbers)
  IN [call EXCEPT
        !.homePlays = homePlays,
        !.winningNumbers = winningNumbers,
        !.winners = winners,
        !.resultData = [winning_numbers |-> winningNumbers,
                        total_players |-> Len(call.plays),
                        total_winners |-> Len(winners),
                        jackpot_amount |-> calculateJackpot(Len(call.plays)),
                        source_table |-> call.table]]

\* the code that runs once the rows of lottery_plays_home are read: the
\* winner is the row at randomIndex when there is one, the winning numbers
\* are its numbers sorted (random numbers sorted when there is no row)
selectWinner(call, homePlays, randomIndex, randomNumbers) ==
  LET winners == IF homePlays # <<>>
                 THEN LET w == RowToPlay(homePlays[randomIndex])
                      IN <<[id |-> 0, username |-> w.username, numbers |-> w.numbers,
                            walletAddress |-> w.walletAddress]>>
                 ELSE <<>>
      winningNumbers == IF homePlays # <<>>
                        THEN SortAsc(JSONparse(homePlays[randomIndex].numbers))
                        ELSE SortAsc(randomNumbers)
  IN [call EXCEPT
        !.homePlays = homePlays,
        !.winningNumbers = winningNumbers,
        !.winners = winners,
        !.resultData = [winning_numbers |-> winningNumbers,
                        total_players |-> Len(call.plays),
                        total_winners |-> Len(winners),
                        jackpot_amount |-> calculateJackpot(Len(call.plays)),
                        source_table |-> call.table]]

\* homeDb.all(...) resolves: the winner is selected and the result built
ReadHome(n) ==
  /\ calls[n].fn = "conductLotteryDraw"
  /\ calls[n].pc = "readHome"
  /\ LET homePlays == db.lottery_plays_home
     IN \E randomIndex \in 1..(IF homePlays = <<>> THEN 1 ELSE Len(homePlays)) :
        \E randomNumbers \in (IF homePlays = <<>> THEN RandomNumbers
                              ELSE {<<>>}) :
          calls' = [calls EXCEPT
            ![n] = [selectWinner(calls[n], homePlays, randomIndex,
                                 randomNumbers)
                      EXCEPT !.pc = "saveResult"]]
  /\ UNCHANGED <<db, chatDebugger>>
  /\ UNCHANGED <<clients, activeConnections, streams, now>>

\* saveLotteryResult(resultData): one INSERT into lottery_results
SaveResult(n) ==
  /\ calls[n].fn = "conductLotteryDraw"
  /\ calls[n].pc = "saveResult"
  /\ db' = Insert(db, "lottery_results",
                  [id |-> 0,
                   winning_numbers |-> JSONstringify(calls[n].resultData.winning_numbers),
                   total_players |-> calls[n].resultData.total_players,
                   total_winners |-> calls[n].resultData.total_winners,
                   jackpot_amount |-> calls[n].resultData.jackpot_amount,
                   source_table |-> calls[n].resultData.source_table])
  /\ calls' = [calls EXCEPT
       ![n].ret = db'.sqlite_sequence["lottery_results"],
       ![n].pc = IF calls[n].winners # <<>> THEN "saveWinner" ELSE "done"]
  /\ UNCHANGED chatDebugger
  /\ UNCHANGED <<clients, activeConnections, streams, now>>

\* saveLotteryWinner(winner), first statement: the INSERT into
\* lottery_winners
SaveWinner(n) ==
  /\ calls[n].fn = "conductLotteryDraw"
  /\ calls[n].pc = "saveWinner"
  /\ LET winner == calls[n].winners[1]
     IN /\ db' = Insert(db, "lottery_winners",
                        [id |-> 0, username |-> winner.username,
                         numbers |-> JSONstringify(winner.numbers),
                         wallet_address |-> OrNull(winner.walletAddress)])
        /\ calls' = [calls EXCEPT
             ![n].winners[1].id = db'.sqlite_sequence["lottery_winners"],
             ![n].pc = IF winner.walletAddress # "" THEN "whitelist"
                       ELSE "done"]
  /\ UNCHANGED chatDebugger
  /\ UNCHANGED <<clients, activeConnections, streams, now>>

\* saveLotteryWinner(winner), second statement: the winner's wallet is
\* removed from the whitelist
WhitelistRemoval(n) ==
  /\ calls[n].fn = "conductLotteryDraw"
  /\ calls[n].pc = "whitelist"
  /\ db' = [db EXCEPT !.whitelist = @ \ {calls[n].winners[1].walletAddress}]
  /\ calls' = [calls EXCEPT ![n].pc = "done"]
  /\ UNCHANGED chatDebugger
  /\ UNCHANGED <<clients, activeConnections, streams, now>>

\* ------------------------------------------------ browser-side debugger
\* (src/lib/chat-debug.ts)  One PumpFunChatDebugger, created and started
\* once by the page.  socks are the sockets io() returned to it: the first
\* is the one start() makes (reconnection: true, reconnectionAttempts: 3,
\* so its manager retries by itself and 'connect_error' fires once per
\* failed attempt), the others are made by tryNext (reconnection: false)
\* and carry the number of the tryAlternativeConnection call, the chain,
\* whose closure made them.  A chain holds the closure's attemptIndex and
\* its pending setTimeout(tryNext, 2000) timers.
alternativeUrls ==
  <<"https://livechat.pump.fun", "wss://livechat.pump.fun/socket.io/",
    "https://livechat.pump.fun/socket.io/">>

reconnectionAttempts == 3

Strategies == {"join", "history", "test"}

NewDebugger ==
  [socket |-> 0, isConnected |-> FALSE, timeoutId |-> FALSE,
   socks |-> <<>>, chains |-> <<>>, retryTimers |-> 0,
   strategyTimers |-> [k \in Strategies |-> 0],
   started |-> FALSE, stopped |-> FALSE, sent |-> <<>>]

\* a callback of the debugger starts: the log of what it emits is empty
DebuggerBegin(s) == [s EXCEPT !.sent = <<>>]

\* socket.emit(ev) on the current socket
DebuggerEmit(s, evs) ==
  [s EXCEPT !.sent = @ \o [n \in DOMAIN evs |-> <<s.socket, evs[n]>>]]

\* socket.disconnect() on socket k: a connected socket fires its
\* 'disconnect' listeners, which only the socket of start() has
DebuggerSocketDisconnect(s, k) ==
  IF s.socks[k].status = "connected"
  THEN [s EXCEPT !.socks[k].status = "closed",
                 !.isConnected = IF s.socks[k].chain = 0 THEN FALSE ELSE @]
  ELSE IF s.socks[k].status = "connecting"
  THEN [s EXCEPT !.socks[k].status = "closed"]
  ELSE s

tryJoinRoom(s) ==
  IF s.socket = 0 \/ ~s.isConnected THEN s
  ELSE [DebuggerEmit(s, <<"joinRoom">>) EXCEPT
          !.strategyTimers = [k \in Strategies |-> @[k] + 1]]

\* the debugger's requestMessageHistory
DebuggerRequestMessageHistory(s) ==
  IF s.socket = 0 \/ ~s.isConnected THEN s
  ELSE DebuggerEmit(s, <<"getMessageHistory", "messageHistory",
                         "getHistory", "fetchMessages">>)

sendTestMessages(s) ==
  IF s.socket = 0 \/ ~s.isConnected THEN s
  ELSE DebuggerEmit(s, <<"sendMessage", "message">>)

\* the closure tryNext of chain c
tryNext(s, c) ==
  IF s.chains[c].attemptIndex >= Len(alternativeUrls) THEN s
  ELSE [s EXCEPT
          !.socks = Append(@, [status |-> "connecting", chain |-> c,
                               attemptsLeft |-> 0]),
          !.socket = Len(s.socks) + 1]

tryAlternativeConnection(s) ==
  tryNext([s EXCEPT !.chains = Append(@, [attemptIndex |-> 0, timers |-> 0])],
          Len(s.chains) + 1)

\* start(), setupEventListeners() included
start(s) ==
  [s EXCEPT
     !.socks = Append(@, [status |-> "connecting", chain |-> 0,
                          attemptsLeft |-> reconnectionAttempts]),
     !.socket = Len(s.socks) + 1,
     !.timeoutId = TRUE,
     !.started = TRUE]

stop(s) ==
  LET s1 == [s EXCEPT !.timeoutId = FALSE]
      s2 == IF s1.socket # 0
            THEN [DebuggerSocketDisconnect(s1, s1.socket) EXCEPT !.socket = 0]
            ELSE s1
  IN [s2 EXCEPT !.isConnected = FALSE, !.stopped = TRUE]

isRunning(s) == s.isConnected /\ s.socket # 0

\* the 'connect' listeners of socket k: the one of setupEventListeners and
\* the one of tryNext do the same
DebuggerConnectHandler(s, k) ==
  tryJoinRoom([s EXCEPT !.socks[k].status = "connected",
                        !.socks[k].attemptsLeft =
                          IF s.socks[k].chain = 0 THEN reconnectionAttempts
                          ELSE 0,
                        !.isConnected = TRUE])

\* the 'connect_error' listener of socket k
DebuggerConnectErrorHandler(s, k) ==
  LET c == s.socks[k].chain
  IN IF c = 0
     THEN [s EXCEPT
             !.retryTimers = @ + 1,
             !.socks[k].status = IF s.socks[k].attemptsLeft > 0
                                 THEN "connecting" ELSE "failed",
             !.socks[k].attemptsLeft = IF @ > 0 THEN @ - 1 ELSE 0]
     ELSE [s EXCEPT
             !.socks[k].status = "failed",
             !.chains[c].attemptIndex = @ + 1,
             !.chains[c].timers = @ + 1]

\* the 'disconnect' listener of socket k after a remote close; the manager
\* of the first socket reconnects unless the server asked for the close
DebuggerDisconnectHandler(s, k, retry) ==
  IF s.socks[k].chain = 0
  THEN [s EXCEPT
          !.isConnected = FALSE,
          !.socks[k].status = IF retry THEN "connecting" ELSE "dropped"]
  ELSE [s EXCEPT !.socks[k].status = "dropped"]

\* the timer armed by the 'connect_error' listener of setupEventListeners
retryTimeout(s) ==
  IF ~s.isConnected /\ s.socket # 0
  THEN tryAlternativeConnection(DebuggerSocketDisconnect(s, s.socket))
  ELSE s

\* the three timers armed by tryJoinRoom
strategyTimeout(s, kind) ==
  IF kind = "join"
  THEN IF s.socket = 0 THEN s
       ELSE DebuggerEmit(s, <<"join", "subscribe", "enterRoom">>)
  ELSE IF kind = "history" THEN DebuggerRequestMessageHistory(s)
  ELSE sendTestMessages(s)

DebuggerStep(s2) ==
  /\ chatDebugger' = s2
  /\ UNCHANGED <<db, calls>>
  /\ UNCHANGED <<clients, activeConnections, streams, now>>

Start ==
  /\ ~chatDebugger.started
  /\ DebuggerStep(start(DebuggerBegin(chatDebugger)))

Stop ==
  /\ chatDebugger.started
  /\ DebuggerStep(stop(DebuggerBegin(chatDebugger)))

AutoStopFires ==
  /\ chatDebugger.timeoutId
  /\ DebuggerStep(stop(DebuggerBegin(chatDebugger)))

DebuggerOnConnect(k) ==
  /\ chatDebugger.socks[k].status = "connecting"
  /\ \A kind \in Strategies :
       chatDebugger.strategyTimers[kind] < MaxPendingTimers
  /\ DebuggerStep(DebuggerConnectHandler(DebuggerBegin(chatDebugger), k))

DebuggerOnConnectError(k) ==
  /\ chatDebugger.socks[k].status = "connecting"
  /\ chatDebugger.socks[k].chain = 0
       => chatDebugger.retryTimers < MaxPendingTimers
  /\ DebuggerStep(DebuggerConnectErrorHandler(DebuggerBegin(chatDebugger), k))

DebuggerOnDisconnect(k) ==
  /\ chatDebugger.socks[k].status = "connected"
  /\ \E retry \in BOOLEAN :
       DebuggerStep(DebuggerDisconnectHandler(DebuggerBegin(chatDebugger),
                                              k, retry))

RetryTimerFires ==
  /\ chatDebugger.retryTimers > 0
  /\ \/ Len(chatDebugger.socks) < MaxDebuggerSockets
     \/ chatDebugger.isConnected
     \/ chatDebugger.socket = 0
  /\ DebuggerStep(retryTimeout([DebuggerBegin(chatDebugger) EXCEPT
                                  !.retryTimers = @ - 1]))

TryNextFires(c) ==
  /\ chatDebugger.chains[c].timers > 0
  /\ \/ Len(chatDebugger.socks) < MaxDebuggerSockets
     \/ chatDebugger.chains[c].attemptIndex >= Len(alternativeUrls)
  /\ DebuggerStep(tryNext([DebuggerBegin(chatDebugger) EXCEPT
                             !.chains[c].timers = @ - 1], c))

StrategyTimerFires(kind) ==
  /\ chatDebugger.strategyTimers[kind] > 0
  /\ DebuggerStep(strategyTimeout([DebuggerBegin(chatDebugger) EXCEPT
                                     !.strategyTimers[kind] = @ - 1], kind))

\* the server has not opened its database and the page has made no
\* debugger
AuxInit ==
  /\ db = <<>>
  /\ calls = <<>>
  /\ chatDebugger = <<>>

\* ------------------------------------------------------- specifications
\* one client driven by an arbitrary caller and an arbitrary transport
Init ==
  /\ \E m \in 0..MaxAttemptsCfg : clients = <<NewClient("roomX", "alice", m)>>
  /\ activeConnections = EmptyMap
  /\ streams = <<>>
  /\ now = 0
  /\ AuxInit

\* what the transports and the timers of the clients may do next
Environment ==
  \/ \E c \in DOMAIN clients : \E k \in DOMAIN clients[c].socks :
       OnConnect(c, k)
  \/ \E c \in DOMAIN clients : \E k \in DOMAIN clients[c].socks :
       OnConnectError(c, k)
  \/ \E c \in DOMAIN clients : \E k \in DOMAIN clients[c].socks, r \in RemoteReasons :
       OnDisconnect(c, k, r)
  \/ \E c \in DOMAIN clients : \E k \in DOMAIN clients[c].socks :
       OnError(c, k)
  \/ \E c \in DOMAIN clients : \E t \in clients[c].timers :
       ReconnectTimeoutFires(c, t)
  \/ \E c \in DOMAIN clients : \E k \in clients[c].watchdogs :
       ConnectionTimeoutFires(c, k)
  \/ \E c \in DOMAIN clients : SettleDelayFires(c)
  \/ \E c \in DOMAIN clients : JoinFallbackFires(c)

Next ==
  \/ \E c \in DOMAIN clients : Connect(c)
  \/ \E c \in DOMAIN clients : Disconnect(c)
  \/ Environment

Spec == Init /\ [][Next]_vars

\* the relay route serving GET requests
\* what a POST body may carry; "" stands for a missing or empty field
Bodies == [action : {"sendMessage", "other"},
           roomId : Rooms \cup {""},
           message : Texts]

\* Array.from(activeConnections.values()).find(...): the first registered
\* client of the room in insertion order, 0 when there is none.  Clients are
\* numbered in the order of their GETs and a key is set by the GET that
\* creates its client, so insertion order is the order of the numbers.
FindConnection(room) ==
  LET matching == {activeConnections[k] : k \in DOMAIN activeConnections}
                    \cap {c \in DOMAIN clients :
                            getConnectionInfo(clients[c]).roomId = room}
  IN IF matching = {} THEN 0
     ELSE CHOOSE c \in matching : \A d \in matching : c <= d

\* the JSON the POST handler answers with
PostResponse(body) ==
  IF body.action = "sendMessage" /\ body.roomId # "" /\ body.message # ""
  THEN LET connection == FindConnection(body.roomId)
       IN IF connection # 0 /\ isActive(clients[connection])
          THEN [success |-> TRUE, text |-> "Message sent"]
          ELSE [success |-> FALSE, text |-> "No active connection found"]
  ELSE [success |-> FALSE, text |-> "Invalid action"]

\* POST handler
POST(body) ==
  LET connection == IF PostResponse(body).success
                    THEN FindConnection(body.roomId) ELSE 0
  IN /\ clients' = [j \in DOMAIN clients |->
                      IF j = connection
                      THEN sendMessage(Begin(clients[j]), body.message)
                      ELSE Begin(clients[j])]
     /\ streams' = [j \in DOMAIN streams |-> BeginStream(streams[j])]
     /\ UNCHANGED <<activeConnections, now>>
     /\ UNCHANGED aux
  /\ UNCHANGED aux

\* the events the route listens to on its client
ClientEvents ==
  {"connected", "disconnected", "error", "message", "messageHistory",
   "userJoined", "userLeft", "serverError", "maxReconnectsReached"}

\* the client of stream i emits ev and the route's listener for it runs
ClientEmits(i, ev) ==
  /\ ev = "maxReconnectsReached"
       => streams[i].cleanupTimers + streams[i].closeAttempts < MaxCloseAttempts
  /\ clients' = [j \in DOMAIN clients |->
                   IF j = i THEN emit(Begin(clients[j]), ev)
                   ELSE Begin(clients[j])]
  /\ streams' = [j \in DOMAIN streams |->
                   IF j = i
                   THEN forward(BeginStream(streams[j]), clients'[j].emitted)
                   ELSE BeginStream(streams[j])]
  /\ UNCHANGED <<activeConnections, now>>
  /\ UNCHANGED aux

RelayInit ==
  /\ clients = <<>>
  /\ activeConnections = EmptyMap
  /\ streams = <<>>
  /\ now = 0
  /\ AuxInit

RelayNext ==
  \/ \E room \in Rooms, user \in Users, time \in now..MaxTime :
       GET(room, user, time)
  \/ \E i \in DOMAIN streams : Abort(i)
  \/ \E i \in DOMAIN streams : Cancel(i)
  \/ Environment

RelaySpec == RelayInit /\ [][RelayNext]_vars

\* scheduleReconnection applied once to every value of the fields it reads
ScheduleReconnectionCall(c) ==
  /\ clients[c].delays = <<>>
  /\ clients[c].nMaxReached = 0
  /\ ClientStep(c, scheduleReconnection(Begin(clients[c])))

DelayInit ==
  /\ \E a \in 0..MaxDelayK, m \in 0..MaxDelayK, r \in BOOLEAN, sr \in BOOLEAN :
       clients = <<[NewClient("roomX", "alice", m) EXCEPT
                      !.reconnectAttempts = a,
                      !.isReconnecting = r,
                      !.shouldReconnect = sr]>>
  /\ activeConnections = EmptyMap
  /\ streams = <<>>
  /\ now = 0
  /\ AuxInit

DelayNext == \E c \in DOMAIN clients : ScheduleReconnectionCall(c)

DelaySpec == DelayInit /\ [][DelayNext]_vars

\* the events of the chat protocol reaching one client over one transport;
\* the client is constructed with a messageHistoryLimit of 1..MaxCapacity
EventInit ==
  /\ \E n \in 1..MaxCapacity :
       clients = <<[NewClient("roomX", "alice", DefaultMaxReconnectAttempts)
                      EXCEPT !.messageHistoryLimit = n]>>
  /\ activeConnections = EmptyMap
  /\ streams = <<>>
  /\ now = 0
  /\ AuxInit

EventNext ==
  \/ \E c \in DOMAIN clients : clients[c].socks = <<>> /\ Connect(c)
  \/ \E c \in DOMAIN clients : \E k \in DOMAIN clients[c].socks :
       OnConnect(c, k)
  \/ \E c \in DOMAIN clients : \E k \in DOMAIN clients[c].socks :
       \E message \in Msgs : OnNewMessage(c, k, message)
  \/ \E c \in DOMAIN clients : \E k \in DOMAIN clients[c].socks :
       \E data \in Histories : OnMessageHistory(c, k, data)
  \/ \E c \in DOMAIN clients : \E k \in DOMAIN clients[c].socks :
       \E response \in Responses : OnJoinRoomResponse(c, k, response)
  \/ \E c \in DOMAIN clients : HistoryFallbackFires(c)
  \/ \E c \in DOMAIN clients : \E k \in DOMAIN clients[c].socks :
       \E data \in UserData : OnUserJoined(c, k, data)
  \/ \E c \in DOMAIN clients : \E k \in DOMAIN clients[c].socks :
       \E data \in LeftData : OnUserLeft(c, k, data)
  \/ \E c \in DOMAIN clients : \E k \in DOMAIN clients[c].socks :
       \E error \in ServerErrors : OnServerError(c, k, error)
  \/ \E c \in DOMAIN clients : \E k \in DOMAIN clients[c].socks :
       \E r \in RemoteReasons : OnDisconnect(c, k, r)

EventSpec == EventInit /\ [][EventNext]_vars

\* the relay serving viewers and chat commands while the transports of its
\* Sessions connect and drop
PostNext ==
  \/ \E room \in Rooms, user \in Users, time \in now..MaxTime :
       GET(room, user, time)
  \/ \E i \in DOMAIN streams : Abort(i)
  \/ \E body \in Bodies : POST(body)
  \/ \E c \in DOMAIN clients : \E k \in DOMAIN clients[c].socks :
       OnConnect(c, k)
  \/ \E c \in DOMAIN clients : \E k \in DOMAIN clients[c].socks :
       \E r \in RemoteReasons : OnDisconnect(c, k, r)

PostSpec == RelayInit /\ [][PostNext]_vars

\* one stream of the relay with a client that may emit any of its events at
\* any time: the listeners, the cleanup timeout, abort and cancel in every
\* order
ChannelNext ==
  \/ \E room \in Rooms, user \in Users, time \in now..MaxTime :
       clients = <<>> /\ GET(room, user, time)
  \/ \E i \in DOMAIN streams : Abort(i)
  \/ \E i \in DOMAIN streams : Cancel(i)
  \/ \E i \in DOMAIN streams : \E ev \in ClientEvents : ClientEmits(i, ev)
  \/ \E i \in DOMAIN streams : CleanupFires(i)

ChannelSpec == RelayInit /\ [][ChannelNext]_vars

\* an armed cleanup timeout expires after its 1000 ms
ChannelLiveSpec ==
  ChannelSpec /\ \A i \in 1..MaxClients : WF_vars(i \in DOMAIN streams /\ CleanupFires(i))

\* the relay with viewers that come and leave while the transports of their
\* Sessions connect and drop and the reconnect timers expire
AbortNext ==
  \/ \E room \in Rooms, user \in Users, time \in now..MaxTime :
       GET(room, user, time)
  \/ \E i \in DOMAIN streams : Abort(i)
  \/ \E c \in DOMAIN clients : \E k \in DOMAIN clients[c].socks :
       OnConnect(c, k)
  \/ \E c \in DOMAIN clients : \E k \in DOMAIN clients[c].socks :
       \E r \in RemoteReasons : OnDisconnect(c, k, r)
  \/ \E c \in DOMAIN clients : \E t \in clients[c].timers :
       ReconnectTimeoutFires(c, t)

AbortSpec == RelayInit /\ [][AbortNext]_vars

\* one client on one transport receiving messages and histories while the
\* caller reads the buffer
QueryNext ==
  \/ \E c \in DOMAIN clients : clients[c].socks = <<>> /\ Connect(c)
  \/ \E c \in DOMAIN clients : \E k \in DOMAIN clients[c].socks :
       OnConnect(c, k)
  \/ \E c \in DOMAIN clients : \E k \in DOMAIN clients[c].socks :
       \E message \in Msgs : OnNewMessage(c, k, message)
  \/ \E c \in DOMAIN clients : \E k \in DOMAIN clients[c].socks :
       \E data \in Histories : OnMessageHistory(c, k, data)
  \/ \E c \in DOMAIN clients : \E arguments \in Limits :
       GetMessages(c, arguments)

QuerySpec == EventInit /\ [][QueryNext]_vars

\* one client, its public methods called in any order while its transports
\* connect, fail and drop; no timer expires
CallerNext ==
  \/ \E c \in DOMAIN clients : Connect(c)
  \/ \E c \in DOMAIN clients : Disconnect(c)
  \/ \E c \in DOMAIN clients : \E text \in Texts : SendMessage(c, text)
  \/ \E c \in DOMAIN clients : IsActive(c)
  \/ \E c \in DOMAIN clients : \E k \in DOMAIN clients[c].socks :
       OnConnect(c, k)
  \/ \E c \in DOMAIN clients : \E k \in DOMAIN clients[c].socks :
       OnConnectError(c, k)
  \/ \E c \in DOMAIN clients : \E k \in DOMAIN clients[c].socks :
       \E r \in RemoteReasons : OnDisconnect(c, k, r)

CallerSpec == Init /\ [][CallerNext]_vars

\* concurrent saveLotteryPlay calls on an empty lottery_plays table
LotteryNext ==
  \/ \E play \in Plays : SaveLotteryPlay("lottery_plays", play)
  \/ \E n \in DOMAIN calls : DeleteRuns(n)
  \/ \E n \in DOMAIN calls : InsertRuns(n)

LotteryInit ==
  /\ clients = <<>>
  /\ activeConnections = EmptyMap
  /\ streams = <<>>
  /\ now = 0
  /\ db = EmptyDb
  /\ calls = <<>>
  /\ chatDebugger = <<>>

LotterySpec == LotteryInit /\ [][LotteryNext]_vars

\* the plays whose rows fill the tables before a draw
AlicePlay ==
  [username |-> "alice", walletAddress |-> "W1", numbers |-> <<7, 3, 49, 1>>]

BobPlay ==
  [username |-> "bob", walletAddress |-> "", numbers |-> <<4, 4, 2, 9>>]

RECURSIVE InsertAll(_, _, _)
InsertAll(d, table, plays) ==
  IF plays = <<>> THEN d
  ELSE InsertAll(Insert(d, table, PlayRow(Head(plays))), table, Tail(plays))

\* draws on tables holding up to MaxRows rows each, with the wallet W1
\* whitelisted, while rows of lottery_plays_home are being deleted
DrawInit ==
  /\ clients = <<>>
  /\ activeConnections = EmptyMap
  /\ streams = <<>>
  /\ now = 0
  /\ \E source \in SeqsUpTo({AlicePlay}, MaxRows),
        home \in SeqsUpTo({AlicePlay, BobPlay}, MaxRows) :
       db = [InsertAll(InsertAll(EmptyDb, "lottery_plays", source),
                       "lottery_plays_home", home)
               EXCEPT !.whitelist = {"W1"}]
  /\ calls = <<>>
  /\ chatDebugger = <<>>

DrawNext ==
  \/ \E sourceTable \in Tables : ConductLotteryDraw(sourceTable)
  \/ \E n \in DOMAIN calls : ReadSource(n)
  \/ \E n \in DOMAIN calls : ReadHome(n)
  \/ \E n \in DOMAIN calls : SaveResult(n)
  \/ \E n \in DOMAIN calls : SaveWinner(n)
  \/ \E n \in DOMAIN calls : WhitelistRemoval(n)
  \/ \E id \in 1..MaxRows : DeleteLotteryPlayHome(id)

DrawSpec == DrawInit /\ [][DrawNext]_vars

\* one debugger, its caller, its sockets and its timers
DebuggerNext ==
  \/ Start
  \/ AutoStopFires
  \/ Stop
  \/ \E k \in DOMAIN chatDebugger.socks : DebuggerOnConnect(k)
  \/ \E k \in DOMAIN chatDebugger.socks : DebuggerOnConnectError(k)
  \/ \E k \in DOMAIN chatDebugger.socks : DebuggerOnDisconnect(k)
  \/ RetryTimerFires
  \/ \E c \in DOMAIN chatDebugger.chains : TryNextFires(c)
  \/ \E kind \in Strategies : StrategyTimerFires(kind)

\* the page has created the debugger
DebuggerInit ==
  /\ clients = <<>>
  /\ activeConnections = EmptyMap
  /\ streams = <<>>
  /\ now = 0
  /\ db = <<>>
  /\ calls = <<>>
  /\ chatDebugger = NewDebugger

DebuggerSpec == DebuggerInit /\ [][DebuggerNext]_vars

\* ---------------------------------------------------- auxiliary facts
\* a failed reconnect attempt leaves isReconnecting set, so the counter
\* never passes 1 (holds under Spec and RelaySpec)
AttemptsAtMostOne ==
  \A c \in DOMAIN clients : clients[c].reconnectAttempts <= 1

\* ================================================================ claims
LiveSockets(s) == {k \in DOMAIN s.socks : Live(s.socks[k].status)}

\* every attempt so far ended in connect_error: one connect() call, every
\* later transport opened by the reconnect timer, all of them failed
OnlyConnectErrors(s) ==
  /\ s.socks # <<>>
  /\ ~s.stopped
  /\ \A k \in DOMAIN s.socks :
       s.socks[k].status = "failed" /\ (k > 1 => s.socks[k].byTimer)

NoWatchdogExpired(s) == s.watchdogs = DOMAIN s.socks

\* C1: when the first attempt and every reconnect attempt ended in
\* connect_error and nothing more is pending, exactly maxReconnectAttempts
\* reconnects were scheduled and exactly one maxReconnectsReached was emitted.
C1_ExhaustionAfterMaxAttempts ==
  \A c \in DOMAIN clients :
    LET s == clients[c]
    IN (OnlyConnectErrors(s) /\ NoWatchdogExpired(s) /\ s.timers = {})
         => (Len(s.delays) = s.maxReconnectAttempts /\ s.nMaxReached = 1)

EntriesFor(r) ==
  {k \in DOMAIN activeConnections : clients[activeConnections[k]].roomId = r}

\* C2: a GET for a room that already has a registry entry disconnects the old
\* Session and leaves exactly one entry for that room.
C2_RestartReplacesSession ==
  [][\A r \in Rooms :
       ( /\ Len(clients') = Len(clients) + 1
         /\ clients'[Len(clients')].roomId = r
         /\ EntriesFor(r) # {} )
       => ( /\ Cardinality(EntriesFor(r)') = 1
            /\ \A k \in EntriesFor(r) :
                 clients'[activeConnections[k]].stopped )]_vars

\* C3: a Session never has two transports connecting or connected at once.
C3_AtMostOneLiveTransport ==
  \A c \in DOMAIN clients : Cardinality(LiveSockets(clients[c])) <= 1

\* C4: once disconnect() has been called, no step opens a transport, sets
\* the connected flag or schedules a reconnect.
C4_StoppedIsTerminal ==
  [][\A c \in DOMAIN clients :
       clients[c].stopped
       => ( /\ Len(clients'[c].socks) = Len(clients[c].socks)
            /\ ~clients'[c].isConnected
            /\ Len(clients'[c].delays) = Len(clients[c].delays) )]_vars

\* C5: while shouldReconnect is false no reconnect timer is pending, and
\* scheduleReconnection changes neither timers, counter nor flag.
C5_NoTimerOnceStopped ==
  \A c \in DOMAIN clients :
    LET s == clients[c]
        s2 == scheduleReconnection(s)
    IN ~s.shouldReconnect
         => ( /\ s.timers = {}
              /\ s2.timers = s.timers
              /\ s2.delays = s.delays
              /\ s2.reconnectAttempts = s.reconnectAttempts
              /\ s2.isReconnecting = s.isReconnecting )

\* C6: with shouldReconnect true, a Session whose transports have all ended
\* has a reconnect timer pending or has emitted maxReconnectsReached.
C6_FailureIsFollowedUp ==
  \A c \in DOMAIN clients :
    LET s == clients[c]
    IN (s.shouldReconnect /\ s.socks # <<>> /\ LiveSockets(s) = {})
         => (s.timers # {} \/ s.exhausted)

\* C7: isReconnecting is true only while a reconnect timer is pending or a
\* transport opened by an expired reconnect timer is still connecting.
C7_ReconnectingOnlyWhileRetrying ==
  \A c \in DOMAIN clients :
    LET s == clients[c]
    IN s.isReconnecting
         => ( \/ s.timers # {}
              \/ \E k \in DOMAIN s.socks :
                   s.socks[k].byTimer /\ s.socks[k].status = "connecting" )

\* C8: every transport 'connect' event sets isConnected, resets
\* reconnectAttempts to 0, clears isReconnecting and emits one 'connected'.
C8_ConnectResetsSession ==
  [][\A c \in DOMAIN clients : \A k \in DOMAIN clients[c].socks :
       ( /\ clients[c].socks[k].status = "connecting"
         /\ clients'[c].socks[k].status = "connected" )
       => ( /\ clients'[c].isConnected
            /\ clients'[c].reconnectAttempts = 0
            /\ ~clients'[c].isReconnecting
            /\ clients'[c].emitted = <<"connected">> )]_vars

\* a transport opened by the reconnect timer (counter 1, flag set) connected
C8_Witness ==
  \E c \in DOMAIN clients : \E k \in DOMAIN clients[c].socks :
    /\ clients[c].socks[k].byTimer
    /\ clients[c].socks[k].status = "connected"
    /\ clients[c].emitted = <<"connected">>
    /\ clients[c].reconnectAttempts = 0

DelayTable == <<1000, 2000, 4000, 8000, 16000, 16000>>

ExpectedDelay(k) == IF k <= Len(DelayTable) THEN DelayTable[k] ELSE 16000

\* C9: the delay of attempt k is min(1000 * 2^(k-1), 16000), that is 1000,
\* 2000, 4000, 8000, 16000, 16000 for k = 1..6, where k is the counter
\* after its increment.
C9_DelayTable ==
  /\ \A k \in 1..Len(DelayTable) : ReconnectDelay(k) = DelayTable[k]
  /\ \A c \in DOMAIN clients :
       \A t \in DOMAIN clients[c].delays :
         /\ clients[c].reconnectAttempts >= 1
         /\ clients[c].delays[t] = ExpectedDelay(clients[c].reconnectAttempts)

\* the sixth attempt was scheduled
C9_Witness ==
  \E c \in DOMAIN clients :
    /\ clients[c].reconnectAttempts = 6
    /\ clients[c].delays = <<16000>>
    /\ clients[c].reconnectTimeout = 1

\* C10: from the maxReconnectsReached event until the next connect() call
\* no reconnect timer is armed and no transport is opened.
C10_NoRetryAfterExhaustion ==
  [][\A c \in DOMAIN clients :
       clients'[c].exhausted
       => ( /\ Len(clients'[c].delays) = Len(clients[c].delays)
            /\ Len(clients'[c].socks) = Len(clients[c].socks) )]_vars

\* maxReconnectsReached was emitted and the watchdog has run since
C10_Witness ==
  \E c \in DOMAIN clients :
    /\ clients[c].exhausted
    /\ clients[c].nMaxReached >= 1
    /\ clients[c].watchdogs = {}
    /\ clients[c].emitted = <<>>

\* the step is a public connect() call of client c: a transport was opened
\* and it was not opened by the reconnect timer
IsConnectCall(c) ==
  /\ Len(clients'[c].socks) = Len(clients[c].socks) + 1
  /\ ~clients'[c].socks[Len(clients'[c].socks)].byTimer

\* C11: when maxReconnectsReached is emitted the Session is disconnected but
\* not stopped (shouldReconnect stays true), and a connect() call made after
\* it opens a transport with the retry budget restored: counter 0, no
\* reconnect in progress, exhaustion forgotten.
C11_ConnectAfterExhaustionRestarts ==
  [][\A c \in DOMAIN clients :
       /\ clients'[c].nMaxReached > clients[c].nMaxReached
            => ( /\ ~clients'[c].isConnected
                 /\ ~clients'[c].stopped
                 /\ clients'[c].shouldReconnect )
       /\ (clients[c].exhausted /\ ~clients[c].stopped /\ IsConnectCall(c))
            => ( /\ clients'[c].reconnectAttempts = 0
                 /\ ~clients'[c].isReconnecting
                 /\ clients'[c].shouldReconnect
                 /\ ~clients'[c].exhausted )]_vars

\* C12: 0 <= reconnectAttempts <= maxReconnectAttempts in every state; the
\* counter is the number of reconnects scheduled since the last 'connect'
\* event, so at most maxReconnectAttempts are scheduled between two of them.
C12_AttemptsWithinBudget ==
  \A c \in DOMAIN clients :
    /\ 0 <= clients[c].reconnectAttempts
    /\ clients[c].reconnectAttempts <= clients[c].maxReconnectAttempts

\* the budget is used up: a reconnect was scheduled with maxReconnectAttempts 1
C12_Witness ==
  \E c \in DOMAIN clients :
    /\ clients[c].maxReconnectAttempts = 1
    /\ clients[c].reconnectAttempts = 1
    /\ clients[c].delays # <<>>

\* C13: when the 20000 ms watchdog of a connect attempt, initial or
\* timer-started, expires while that attempt's transport is still connecting,
\* the transport is closed and the error path is taken: with shouldReconnect
\* true a reconnect timer is armed when attempts remain and
\* maxReconnectsReached is emitted otherwise.
C13_WatchdogClosesAndRetries ==
  [][\A c \in DOMAIN clients :
       \A k \in clients[c].watchdogs \ clients'[c].watchdogs :
         clients[c].socks[k].status = "connecting"
         => ( /\ clients'[c].socks[k].status = "closed"
              /\ clients[c].shouldReconnect
                   => IF clients[c].reconnectAttempts
                           < clients[c].maxReconnectAttempts
                      THEN Len(clients'[c].delays) = Len(clients[c].delays) + 1
                      ELSE clients'[c].nMaxReached
                             = clients[c].nMaxReached + 1 )]_vars

\* the callback that took s to s2 did nothing but consume its own timer
TimerHadNoEffect(s, s2) ==
  [s2 EXCEPT !.watchdogs = s.watchdogs, !.timers = s.timers] = Begin(s)

\* C14: a reconnect timer or a watchdog armed before disconnect() was called
\* has no effect when it expires after the call.
C14_StaleTimersHaveNoEffect ==
  [][\A c \in DOMAIN clients :
       clients[c].stopped
       => ( /\ \A t \in clients[c].timers \ clients'[c].timers :
                 TimerHadNoEffect(clients[c], clients'[c])
            /\ \A k \in clients[c].watchdogs \ clients'[c].watchdogs :
                 ~clients[c].socks[k].afterStop
                 => TimerHadNoEffect(clients[c], clients'[c]) )]_vars

\* transport k of client c went from status a to status b in the step
Moved(c, k, a, b) ==
  clients[c].socks[k].status = a /\ clients'[c].socks[k].status = b

ReconnectArmed(c) == Len(clients'[c].delays) = Len(clients[c].delays) + 1

\* C15 as worded: on every transport 'disconnect' event isConnected becomes
\* false and 'disconnected' is emitted; a reconnect is scheduled iff
\* shouldReconnect is true and the reason is not 'io client disconnect'.
C15_ScheduledIffShouldReconnect ==
  [][\A c \in DOMAIN clients : \A k \in DOMAIN clients[c].socks :
       /\ Moved(c, k, "connected", "dropped")
            => ( /\ ~clients'[c].isConnected
                 /\ Head(clients'[c].emitted) = "disconnected"
                 /\ ReconnectArmed(c) <=> clients[c].shouldReconnect )
       /\ (Moved(c, k, "connected", "closed") /\ clients'[c].stopped)
            => ( /\ ~clients'[c].isConnected
                 /\ clients'[c].emitted = <<"disconnected">>
                 /\ ~ReconnectArmed(c) )]_vars

\* C15 (amended): on every transport 'disconnect' event isConnected becomes
\* false and 'disconnected' is emitted; a reconnect is scheduled iff
\* shouldReconnect is true, the reason is not 'io client disconnect', no
\* reconnect is in progress and attempts remain; with none left
\* maxReconnectsReached is emitted instead.  The handler never schedules on
\* the local reason, so a close made by disconnect() schedules nothing.
C15_DisconnectEvent ==
  [][\A c \in DOMAIN clients :
       LET s == clients[c]
           local == onDisconnect(Begin(s), LocalReason)
           canRetry == s.shouldReconnect /\ ~s.isReconnecting
       IN /\ ~local.isConnected
          /\ local.emitted = <<"disconnected">>
          /\ local.delays = s.delays
          /\ \A k \in DOMAIN s.socks :
               /\ Moved(c, k, "connected", "dropped")
                    => ( /\ ~clients'[c].isConnected
                         /\ Head(clients'[c].emitted) = "disconnected"
                         /\ ReconnectArmed(c)
                              <=> ( canRetry /\ s.reconnectAttempts
                                                 < s.maxReconnectAttempts )
                         /\ clients'[c].nMaxReached > s.nMaxReached
                              <=> ( canRetry /\ s.reconnectAttempts
                                                 >= s.maxReconnectAttempts ) )
               /\ (Moved(c, k, "connected", "closed") /\ clients'[c].stopped)
                    => ( /\ ~clients'[c].isConnected
                         /\ clients'[c].emitted = <<"disconnected">>
                         /\ ~ReconnectArmed(c) )]_vars

\* a connected transport was dropped by the server and a reconnect was armed
C15_Witness ==
  \E c \in DOMAIN clients : \E k \in DOMAIN clients[c].socks :
    /\ clients[c].socks[k].status = "dropped"
    /\ clients[c].emitted = <<"disconnected">>
    /\ ~clients[c].isConnected
    /\ clients[c].reconnectTimeout # 0
    /\ clients[c].reconnectTimeout \in clients[c].timers

\* C16: from any state one disconnect() call leaves shouldReconnect,
\* isConnected and isReconnecting false, no socket handle and no reconnect
\* timer; a second call changes nothing.
C16_DisconnectIdempotent ==
  \A c \in DOMAIN clients :
    LET d == disconnect(Begin(clients[c]))
    IN /\ ~d.shouldReconnect
       /\ ~d.isConnected
       /\ ~d.isReconnecting
       /\ d.socket = 0
       /\ d.reconnectTimeout = 0
       /\ d.timers = {}
       /\ disconnect(Begin(d)) = Begin(d)

\* C17: with a capacity above 0 the history buffer never holds more than
\* messageHistoryLimit messages, whatever the interleaving of newMessage and
\* messageHistory events.
C17_BufferWithinCapacity ==
  \A c \in DOMAIN clients :
    Len(clients[c].messageHistory) <= clients[c].messageHistoryLimit

\* a full buffer took another message after a history replacement
C17_Witness ==
  \E c \in DOMAIN clients :
    /\ clients[c].replaced
    /\ clients[c].event = "newMessage"
    /\ Len(clients[c].inserted) > clients[c].messageHistoryLimit
    /\ Len(clients[c].messageHistory) = clients[c].messageHistoryLimit

\* C18: from the empty buffer of a new client, while no more than
\* messageHistoryLimit messages were inserted the buffer is exactly the
\* inserted messages in arrival order; every insertion appends the new message
\* last, and at full length it removes exactly the oldest one and keeps the
\* length.
C18_FifoInsertion ==
  [][\A c \in DOMAIN clients :
       LET s == clients[c]
           s2 == clients'[c]
           N == s.messageHistoryLimit
       IN /\ (~s.replaced /\ Len(s.inserted) <= N)
               => s.messageHistory = s.inserted
          /\ s2.event = "newMessage"
               => IF Len(s.messageHistory) < N
                  THEN s2.messageHistory = Append(s.messageHistory, s2.input)
                  ELSE /\ s2.messageHistory
                            = Append(Tail(s.messageHistory), s2.input)
                       /\ Len(s2.messageHistory) = N]_vars

\* a buffer of capacity 2 holding two different messages took a third
C18_Witness ==
  \E c \in DOMAIN clients :
    LET s == clients[c]
    IN /\ ~s.replaced
       /\ s.event = "newMessage"
       /\ s.messageHistoryLimit = 2
       /\ Len(s.inserted) = 3
       /\ s.inserted[1] # s.inserted[2]
       /\ s.messageHistory = <<s.inserted[2], s.inserted[3]>>

\* the messages a 'messageHistory' event carries
Carried(data) == IF data.hasMessages THEN data.messages ELSE <<>>

\* C19: a messageHistory event carrying M messages replaces the buffer by the
\* last messageHistoryLimit of them in their order when M exceeds the limit
\* and by all M otherwise, and the 'messageHistory' event the client emits
\* carries the buffer after the replacement.
C19_HistoryReplacesBuffer ==
  \A c \in DOMAIN clients :
    LET s == clients[c]
        N == s.messageHistoryLimit
    IN s.event = "messageHistory"
         => LET messages == Carried(s.input)
                M == Len(messages)
                expected == IF M > N
                            THEN [i \in 1..N |-> messages[M - N + i]]
                            ELSE messages
            IN /\ s.messageHistory = expected
               /\ s.emitted = <<"messageHistory">>
               /\ s.args = <<<<"messageHistory", s.messageHistory>>>>

\* a buffer that had taken messages was replaced by a longer history
C19_Witness ==
  \E c \in DOMAIN clients :
    LET s == clients[c]
    IN /\ s.event = "messageHistory"
       /\ s.inserted # <<>>
       /\ Len(Carried(s.input)) > s.messageHistoryLimit
       /\ Carried(s.input)[1] # s.messageHistory[1]

\* C20 as worded: a joinRoomResponse with success = false makes the client
\* emit exactly one 'serverError' carrying the response's message and request
\* no message history.
C20_ErrorCarriesResponseMessage ==
  [][\A c \in DOMAIN clients :
       LET s2 == clients'[c]
       IN (s2.event = "joinRoomResponse" /\ ~s2.input.success
             /\ s2.input.hasMessage)
            => ( /\ s2.emitted = <<"serverError">>
                 /\ s2.args = <<<<"serverError", s2.input.message>>>>
                 /\ s2.sent = <<>>
                 /\ s2.historyTimers = clients[c].historyTimers )]_vars

\* C20 (amended): a joinRoomResponse with success = false makes the client
\* emit exactly one 'serverError' carrying the response's message, or
\* 'Failed to join room' when the message is missing or empty, and request no
\* message history, at once or by timer.
C20_JoinFailureReported ==
  [][\A c \in DOMAIN clients :
       LET s2 == clients'[c]
       IN (s2.event = "joinRoomResponse" /\ ~s2.input.success)
            => ( /\ s2.emitted = <<"serverError">>
                 /\ s2.args
                      = <<<<"serverError",
                            IF s2.input.hasMessage /\ s2.input.message # ""
                            THEN s2.input.message
                            ELSE "Failed to join room">>>>
                 /\ s2.sent = <<>>
                 /\ s2.historyTimers = clients[c].historyTimers )]_vars

\* a refusal without a usable message was reported with the default reason
C20_Witness ==
  \E c \in DOMAIN clients :
    LET s == clients[c]
    IN /\ s.event = "joinRoomResponse"
       /\ ~s.input.success
       /\ s.input.message = ""
       /\ s.isConnected
       /\ s.args = <<<<"serverError", "Failed to join room">>>>

\* the connection and reconnection state of s2 is that of s
SameConnectionState(s, s2) ==
  /\ s2.isConnected = s.isConnected
  /\ s2.socket = s.socket
  /\ s2.socks = s.socks
  /\ s2.reconnectAttempts = s.reconnectAttempts
  /\ s2.isReconnecting = s.isReconnecting
  /\ s2.reconnectTimeout = s.reconnectTimeout
  /\ s2.timers = s.timers
  /\ s2.delays = s.delays
  /\ s2.shouldReconnect = s.shouldReconnect

\* C21: handling a joinRoomResponse with success = false or an upstream
\* serverError leaves the connected flag, the socket handle, the attempt
\* counter, the reconnecting flag and the reconnect timer as they were.
C21_ProtocolFailureKeepsConnection ==
  [][\A c \in DOMAIN clients :
       LET s == clients[c]
           s2 == clients'[c]
       IN /\ \A error \in ServerErrors :
               SameConnectionState(s, onServerError(Begin(s), error))
          /\ \A response \in Responses :
               ~response.success
               => SameConnectionState(s, onJoinRoomResponse(Begin(s), response))
          /\ ( \/ s2.event = "serverError"
               \/ (s2.event = "joinRoomResponse" /\ ~s2.input.success) )
               => (SameConnectionState(s, s2) /\ s2.sent = <<>>)]_vars

\* an upstream serverError was handled on a connected Session
C21_Witness ==
  \E c \in DOMAIN clients :
    /\ clients[c].event = "serverError"
    /\ clients[c].emitted = <<"serverError">>
    /\ clients[c].isConnected
    /\ clients[c].reconnectAttempts = 0
    /\ clients[c].timers = {}

\* the running callback of s sent the upstream event ev
Sent(s, ev) == \E i \in DOMAIN s.sent : s.sent[i][2] = ev

JoinStyle == {"joinRoom", "join", "subscribe"}

\* C22: no join-style request is sent while isConnected is false; the primary
\* joinRoom {roomId, username} is sent only by an expiring settle timer; the
\* fallback 'join' and 'subscribe' are sent only by an expiring fallback timer
\* and only on a connection whose primary joinRoom was sent before.
C22_JoinRequestsInOrder ==
  [][\A c \in DOMAIN clients :
       LET s == clients[c]
           s2 == clients'[c]
       IN /\ (\E ev \in JoinStyle : Sent(s2, ev))
               => (s.isConnected /\ s2.isConnected)
          /\ Sent(s2, "joinRoom")
               => ( /\ s2.settleTimers = s.settleTimers - 1
                    /\ s2.sentArgs = <<<<"joinRoom",
                                         [roomId |-> s.roomId,
                                          username |-> s.username]>>>> )
          /\ (Sent(s2, "join") \/ Sent(s2, "subscribe"))
               => ( /\ s2.fallbackTimers = s.fallbackTimers - 1
                    /\ s.joinSent )]_vars

HistoryFallbacks == {"messageHistory", "getHistory", "fetchMessages"}

\* the upstream events the running callback of s sent, in order
SentEvents(s) == [i \in DOMAIN s.sent |-> s.sent[i][2]]

\* C23: getMessageHistory {roomId, before, limit = messageHistoryLimit} is
\* sent exactly by the handling of a joinRoomResponse with success = true
\* while connected; the three fallback requests are sent only by the timer
\* that request armed, only while connected; hence no history request comes
\* before a successful join acknowledgment.
C23_HistoryRequestedAfterJoin ==
  [][\A c \in DOMAIN clients :
       LET s == clients[c]
           s2 == clients'[c]
       IN /\ Sent(s2, "getMessageHistory")
               <=> ( /\ s2.event = "joinRoomResponse"
                     /\ s2.input.success
                     /\ s.isConnected )
          /\ Sent(s2, "getMessageHistory")
               => ( /\ s2.sentArgs
                         = <<<<"getMessageHistory",
                               [roomId |-> s.roomId, before |-> "null",
                                limit |-> s.messageHistoryLimit]>>>>
                    /\ s2.historyTimers = s.historyTimers + 1 )
          /\ (\E ev \in HistoryFallbacks : Sent(s2, ev))
               => ( /\ s.isConnected
                    /\ s.historyTimers >= 1
                    /\ s2.historyTimers = s.historyTimers - 1
                    /\ SentEvents(s2)
                         = <<"messageHistory", "getHistory", "fetchMessages">> )]_vars

\* the fallback requests followed a history request on a live connection
C23_Witness ==
  \E c \in DOMAIN clients :
    /\ Sent(clients[c], "fetchMessages")
    /\ clients[c].isConnected
    /\ clients[c].historyTimers = 0

\* C24: sendMessage(text) sends one upstream sendMessage {roomId, message}
\* when the Session has a socket handle and isConnected is true and changes
\* nothing else; in every other state it sends nothing, emits nothing and
\* leaves the Session as it was.
C24_SendMessageGuarded ==
  [][\A c \in DOMAIN clients :
       LET s == clients[c]
           s2 == clients'[c]
           called == [Begin(s) EXCEPT !.event = "sendMessage",
                                      !.input = s2.input]
       IN s2.event = "sendMessage"
            => IF s.socket # 0 /\ s.isConnected
               THEN /\ s2.sent = <<<<s.socket, "sendMessage">>>>
                    /\ s2.sentArgs = <<<<"sendMessage",
                                         [roomId |-> s.roomId,
                                          message |-> s2.input]>>>>
                    /\ s2.emitted = <<>>
                    /\ [s2 EXCEPT !.sent = <<>>, !.sentArgs = <<>>] = called
               ELSE s2 = called]_vars

\* sendMessage was a no-op on a Session whose transport had dropped
C24_Witness ==
  \E c \in DOMAIN clients :
    /\ clients[c].event = "sendMessage"
    /\ clients[c].socket # 0
    /\ ~clients[c].isConnected
    /\ clients[c].socks[clients[c].socket].status = "dropped"
    /\ clients[c].sent = <<>>

\* C25: for every buffer content and every limit, getMessages(limit) returns
\* the last min(limit, length) buffered messages in buffer order, and
\* getMessages() with no limit returns all of them.
C25_GetMessagesReturnsLast ==
  \A c \in DOMAIN clients :
    LET s == clients[c]
        len == Len(s.messageHistory)
    IN s.event = "getMessages"
         => IF s.input = <<>>
            THEN s.returned = <<s.messageHistory>>
            ELSE LET n == Min(s.input[1], len)
                 IN s.returned =
                      <<[i \in 1..n |-> s.messageHistory[len - n + i]]>>

\* C26: isActive() returns true exactly when isConnected is true and the
\* current socket handle exists and reports itself connected, and false in
\* every other state, in particular after disconnect().
C26_IsActiveAgreement ==
  \A c \in DOMAIN clients :
    LET s == clients[c]
        transportUp == \E k \in DOMAIN s.socks :
                         k = s.socket /\ s.socks[k].status = "connected"
    IN s.event = "isActive"
         => /\ s.returned = <<s.isConnected /\ transportUp>>
            /\ s.stopped /\ s.socket = 0 => s.returned = <<FALSE>>

\* isActive() answered false while the flag was true: connect() had replaced
\* a connected transport by one that is still connecting
C26_Witness ==
  \E c \in DOMAIN clients :
    /\ clients[c].event = "isActive"
    /\ clients[c].isConnected
    /\ clients[c].socket # 0
    /\ clients[c].socks[clients[c].socket].status = "connecting"
    /\ clients[c].returned = <<FALSE>>

\* C27: when the viewer of stream i aborts while the Session of that stream
\* is active, the abort listener leaves, in the same step, the Session
\* stopped (shouldReconnect false, not connected, not reconnecting, socket
\* handle released and its transport closed, no reconnect timer pending),
\* the registry without that stream's connectionId and with every other
\* entry kept, and the push channel closed.
C27_AbortStopsSession ==
  [][\A i \in DOMAIN streams :
       LET s == clients[i]
           s2 == clients'[i]
           id == streams[i].connectionId
       IN ~streams[i].aborted /\ streams'[i].aborted /\ isActive(s)
            => /\ s2.stopped
               /\ ~s2.shouldReconnect
               /\ ~s2.isConnected
               /\ ~s2.isReconnecting
               /\ s2.socket = 0
               /\ s2.socks[s.socket].status = "closed"
               /\ s2.reconnectTimeout = 0
               /\ s2.timers = {}
               /\ activeConnections' = MapDelete(activeConnections, id)
               /\ id \notin DOMAIN activeConnections'
               /\ streams'[i].isControllerClosed
               /\ streams'[i].state # "open"]_vars

\* the viewer of a stream left while its Session was active on a transport
\* opened by a reconnect; the Session is stopped, its entry is gone and
\* another stream's entry is still there
C27_Witness ==
  \E i \in DOMAIN streams :
    /\ streams[i].aborted
    /\ streams[i].closes = 1
    /\ clients[i].stopped
    /\ \E k \in DOMAIN clients[i].socks :
         /\ clients[i].socks[k].status = "closed"
         /\ clients[i].socks[k].byTimer
    /\ clients[i].emitted = <<"disconnected">>
    /\ streams[i].connectionId \notin DOMAIN activeConnections
    /\ activeConnections # EmptyMap

\* C28: the relay calls controller.close() at most once per stream, so the
\* stream is closed at most once; whatever the order of the abort listener
\* and the maxReconnectsReached cleanup timeouts, every safeClose() after the
\* first is a no-op.
C28_ClosedAtMostOnce ==
  \A i \in DOMAIN streams :
    /\ streams[i].closeCalls <= 1
    /\ streams[i].closes <= streams[i].closeCalls
    /\ streams[i].closeAttempts >= 1 => streams[i].isControllerClosed

\* the cleanup timeout closed the stream and the abort listener's later
\* safeClose() did nothing
C28_Witness ==
  \E i \in DOMAIN streams :
    /\ streams[i].aborted
    /\ streams[i].closeAttempts = 2
    /\ streams[i].cleanupTimers = 0
    /\ streams[i].closeCalls = 1
    /\ streams[i].closes = 1

\* the registered Sessions of the room that are active
ActiveSessions(room) ==
  {c \in {activeConnections[k] : k \in DOMAIN activeConnections} :
     clients[c].roomId = room /\ isActive(clients[c])}

\* C29: a send command for room R is answered with success, and its text is
\* forwarded to an active Session of R, iff the registry holds an active
\* Session for R; it is answered with 'No active connection found' only when
\* the registry holds no active Session for R.
C29_SendAnsweredByActivity ==
  [][\A body \in Bodies :
       body.action = "sendMessage" /\ body.roomId # "" /\ body.message # ""
         /\ POST(body)
       => LET response == PostResponse(body)
              active == ActiveSessions(body.roomId)
          IN /\ response.success <=> active # {}
             /\ response.success
                  => \E c \in active :
                       clients'[c].sentArgs =
                         <<<<"sendMessage", [roomId |-> body.roomId,
                                             message |-> body.message]>>>>
             /\ ~response.success
                  => response.text = "No active connection found"]_vars

\* the upstream events that are normalized and the event each one becomes
Normalized ==
  [newMessage |-> "message", messageHistory |-> "messageHistory",
   userJoined |-> "userJoined", userLeft |-> "userLeft",
   serverError |-> "serverError"]

\* C30: the callback handling a delivered newMessage, messageHistory,
\* userJoined, userLeft or serverError emits exactly one event, the
\* normalized one with that delivery's payload, before it returns; no other
\* callback emits a normalized event, but for the 'serverError' by which a
\* refused join is reported.  So the normalized events come out in delivery
\* order, none twice and none lost.
C30_OneEventPerDelivery ==
  \A c \in DOMAIN clients :
    LET s == clients[c]
    IN IF s.event \in DOMAIN Normalized
       THEN /\ s.emitted = <<Normalized[s.event]>>
            /\ s.args =
                 << <<Normalized[s.event],
                      CASE s.event = "newMessage" -> s.input
                        [] s.event = "messageHistory" -> s.messageHistory
                        [] s.event = "userJoined" -> s.input
                        [] s.event = "userLeft" -> s.input.userAddress
                        [] s.event = "serverError" -> s.input>> >>
       ELSE \/ \A i \in DOMAIN s.emitted :
                 \A e \in DOMAIN Normalized : s.emitted[i] # Normalized[e]
            \/ /\ s.event = "joinRoomResponse"
               /\ ~s.input.success
               /\ s.emitted = <<"serverError">>

\* a userLeft delivery that followed messages and a history was emitted once
C30_Witness ==
  \E c \in DOMAIN clients :
    /\ clients[c].event = "userLeft"
    /\ clients[c].emitted = <<"userLeft">>
    /\ Len(clients[c].inserted) >= 2
    /\ clients[c].replaced

\* C32: once the maxReconnectsReached listener of a stream has run (its
\* cleanup timeout is armed), the stream's connectionId leaves the registry
\* and the push channel gets closed.
C32_ExhaustedEntryRemoved ==
  \A i \in 1..MaxClients :
    (i \in DOMAIN streams /\ streams[i].cleanupTimers > 0)
      ~> ( /\ i \in DOMAIN streams
           /\ streams[i].connectionId \notin DOMAIN activeConnections
           /\ streams[i].isControllerClosed
           /\ streams[i].state # "open" )

\* the cleanup timeout, not an abort or a cancel, closed the channel and
\* removed the entry
C32_Witness ==
  \E i \in DOMAIN streams :
    /\ ~streams[i].aborted
    /\ streams[i].state = "closed"
    /\ streams[i].closeAttempts = 1
    /\ streams[i].cleanupTimers = 0
    /\ streams[i].connectionId \notin DOMAIN activeConnections

\* C33: at most one reconnect timer is pending at any time, and a pending
\* one is the timer reconnectTimeout refers to.
C33_OneReconnectTimer ==
  \A c \in DOMAIN clients :
    /\ Cardinality(clients[c].timers) <= 1
    /\ \A t \in clients[c].timers : t = clients[c].reconnectTimeout

\* C34: while isConnected is true the Session holds a socket handle, and the
\* handle is a transport that has reported 'connect' and no end since, so it
\* is the transport whose 'connect' event set the flag.
C34_ConnectedHasItsTransport ==
  \A c \in DOMAIN clients :
    clients[c].isConnected
      => /\ clients[c].socket # 0
         /\ clients[c].socks[clients[c].socket].status = "connected"

\* C35: the expiry of the watchdog armed for connect attempt k changes the
\* transport of no other attempt, and when attempt k is no longer the
\* current one it arms no reconnect timer and emits no maxReconnectsReached.
C35_WatchdogOwnAttempt ==
  [][\A c \in DOMAIN clients :
       \A k \in clients[c].watchdogs \ clients'[c].watchdogs :
         /\ \A j \in DOMAIN clients[c].socks \ {k} :
              clients'[c].socks[j].status = clients[c].socks[j].status
         /\ k # clients[c].socket
              => /\ clients'[c].timers = clients[c].timers
                 /\ clients'[c].delays = clients[c].delays
                 /\ clients'[c].nMaxReached = clients[c].nMaxReached]_vars

\* the viewer of stream i leaves in this step: abort or cancel
ViewerLeaves(i) ==
  \/ ~streams[i].aborted /\ streams'[i].aborted
  \/ streams[i].state = "open" /\ streams'[i].state = "cancelled"

\* C36: when the viewer of stream i aborts or cancels, the Session of every
\* other stream keeps its handle and is not stopped, and every registry entry
\* of another stream's Session stays in the registry.
C36_LeavingTouchesOwnSessionOnly ==
  [][\A i \in DOMAIN streams :
       ViewerLeaves(i)
         => /\ \A j \in DOMAIN clients \ {i} :
                 /\ clients'[j].stopped = clients[j].stopped
                 /\ clients'[j].socket = clients[j].socket
                 /\ clients'[j].shouldReconnect = clients[j].shouldReconnect
            /\ \A k \in DOMAIN activeConnections :
                 activeConnections[k] # i
                   => /\ k \in DOMAIN activeConnections'
                      /\ activeConnections'[k] = activeConnections[k]]_vars

\* C37: once maxReconnectsReached has been emitted, it is not emitted again
\* before the next explicit connect() or the next successful connect, and no
\* callback emits it twice.
C37_ExhaustionReportedOnce ==
  [][\A c \in DOMAIN clients :
       /\ clients'[c].nMaxReached <= clients[c].nMaxReached + 1
       /\ (clients[c].exhausted /\ ~clients[c].isConnected)
            => clients'[c].nMaxReached = clients[c].nMaxReached]_vars

\* what forwarding the events evs enqueues: for each event, in order, one
\* 'log' message and then one 'event' message
Forwarded(evs) ==
  [n \in 1..(2 * Len(evs)) |->
     IF n % 2 = 1 THEN <<"log", evs[(n + 1) \div 2]>>
     ELSE <<"event", evs[n \div 2]>>]

\* C38: a callback that runs after safeClose closed the channel of stream i
\* enqueues nothing on it, whatever its Session emits; a callback that finds
\* the channel open, and is not the viewer's cancel, enqueues for the events
\* its Session emits one 'log' and then one 'event' message each, in
\* emission order.
C38_ForwardedWhileOpen ==
  [][\A i \in DOMAIN streams :
       /\ streams[i].isControllerClosed => streams'[i].out = <<>>
       /\ ( /\ ~streams[i].isControllerClosed
            /\ streams[i].state = "open"
            /\ streams'[i].state # "cancelled" )
            => streams'[i].out = Forwarded(clients'[i].emitted)]_vars

\* the Session emitted an event after safeClose had closed the channel and
\* nothing was enqueued
C38_Witness ==
  \E i \in DOMAIN streams :
    /\ streams[i].closeCalls = 1
    /\ streams[i].state = "closed"
    /\ clients[i].emitted = <<"message">>
    /\ streams[i].out = <<>>

\* C39: once stop() has been called on the debugger, no step creates a
\* socket and isRunning() is false after every step: neither a pending
\* connect_error retry timer nor a pending tryNext opens a connection or
\* sets the connected flag.
C39_StoppedStaysStopped ==
  [][chatDebugger.stopped =>
       /\ Len(chatDebugger'.socks) = Len(chatDebugger.socks)
       /\ ~chatDebugger'.isConnected
       /\ ~isRunning(chatDebugger')]_vars

\* what a completed set of saves leaves in lottery_plays
SavesCompleted ==
  /\ calls # <<>>
  /\ \A n \in DOMAIN calls : calls[n].pc = "done"

\* C31: when every saveLotteryPlay call made so far has completed,
\* lottery_plays holds at most one row per username and at most one row per
\* non-empty wallet address, and each row is the play of the last call
\* that completed for its username.
C31_OneRowPerAuthor ==
  SavesCompleted =>
    LET rows == db.lottery_plays
    IN /\ \A a, b \in DOMAIN rows :
            (a # b) =>
              /\ rows[a].username # rows[b].username
              /\ rows[a].wallet_address = NULL
                   \/ rows[a].wallet_address # rows[b].wallet_address
       /\ \A a \in DOMAIN rows :
            \E n \in DOMAIN calls :
              /\ calls[n].ret = rows[a].id
              /\ PlayRow(calls[n].play) = [rows[a] EXCEPT !.id = 0]
              /\ \A m \in DOMAIN calls :
                   calls[m].play.username = rows[a].username
                     => calls[m].ret <= calls[n].ret

IsAscending(s) == \A i \in 1..(Len(s) - 1) : s[i] <= s[i + 1]

\* a and b hold the same numbers, each as many times
SameNumbers(a, b) ==
  /\ Len(a) = Len(b)
  /\ \A i \in DOMAIN a :
       Cardinality({j \in DOMAIN a : a[j] = a[i]})
         = Cardinality({j \in DOMAIN b : b[j] = a[i]})

\* call n of conductLotteryDraw moves from statement from in this step
DrawLeaves(n, from) ==
  /\ calls[n].fn = "conductLotteryDraw"
  /\ calls[n].pc = from
  /\ calls'[n].pc # from

\* C40: a draw counts as players the rows its sourceTable holds when it
\* reads it; when it reads lottery_plays_home it selects one winner if the
\* table holds a row and none if it is empty, whatever sourceTable is: the
\* winner is one of the rows of lottery_plays_home and the winning numbers
\* are that row's numbers in ascending order; the result it records carries
\* these numbers, total_players and total_winners (0 or 1), and it records
\* in lottery_winners exactly the selected winner.
C40_WinnerFromHome ==
  [][/\ \A n \in DOMAIN calls :
          /\ DrawLeaves(n, "readSource") =>
               Len(calls'[n].plays) = Len(db[calls[n].table])
          /\ DrawLeaves(n, "readHome") =>
               LET home == db.lottery_plays_home
                   rd == calls'[n].resultData
                   ws == calls'[n].winners
               IN /\ rd.total_winners = IF home # <<>> THEN 1 ELSE 0
                  /\ Len(ws) = rd.total_winners
                  /\ rd.total_players = Len(calls[n].plays)
                  /\ rd.source_table = calls[n].table
                  /\ IsAscending(rd.winning_numbers)
                  /\ home # <<>> =>
                       \E k \in DOMAIN home :
                         /\ ws[1].username = home[k].username
                         /\ OrNull(ws[1].walletAddress) = home[k].wallet_address
                         /\ JSONstringify(ws[1].numbers) = home[k].numbers
                         /\ SameNumbers(rd.winning_numbers, ws[1].numbers)
          /\ DrawLeaves(n, "saveResult") =>
               /\ Len(db'.lottery_results) = Len(db.lottery_results) + 1
               /\ LET r == db'.lottery_results[Len(db'.lottery_results)]
                      rd == calls[n].resultData
                  IN /\ r.id = calls'[n].ret
                     /\ JSONparse(r.winning_numbers) = rd.winning_numbers
                     /\ r.total_players = rd.total_players
                     /\ r.total_winners = rd.total_winners
                     /\ r.total_winners = Len(calls[n].winners)
                     /\ r.source_table = rd.source_table
               /\ (calls'[n].pc = "saveWinner") = (calls[n].winners # <<>>)
          /\ DrawLeaves(n, "saveWinner") =>
               /\ Len(db'.lottery_winners) = Len(db.lottery_winners) + 1
               /\ LET w == db'.lottery_winners[Len(db'.lottery_winners)]
                  IN /\ w.username = calls[n].winners[1].username
                     /\ JSONparse(w.numbers) = calls[n].winners[1].numbers
                     /\ w.wallet_address
                          = OrNull(calls[n].winners[1].walletAddress)
     /\ Len(db'.lottery_winners) # Len(db.lottery_winners) =>
          \E n \in DOMAIN calls : DrawLeaves(n, "saveWinner")
     /\ Len(db'.lottery_results) # Len(db.lottery_results) =>
          \E n \in DOMAIN calls : DrawLeaves(n, "saveResult")]_vars

\* a draw over lottery_plays has completed and recorded a winner taken from
\* lottery_plays_home, whose numbers were not in order, with a player count
\* that is not the number of rows of lottery_plays_home
C40_Witness ==
  \E n \in DOMAIN calls :
    /\ calls[n].fn = "conductLotteryDraw"
    /\ calls[n].pc = "done"
    /\ calls[n].table = "lottery_plays"
    /\ Len(calls[n].winners) = 1
    /\ calls[n].winners[1].id = Len(db.lottery_winners)
    /\ calls[n].resultData.winning_numbers # calls[n].winners[1].numbers
    /\ calls[n].resultData.total_players # Len(calls[n].homePlays)
    /\ Len(db.lottery_results) = 1

====
